---- MODULE Spec2Model ----
(***************************************************************************)
(* bookCrawler: the crawl pipeline of src/crawler (orchestrator, robots    *)
(* checker, rate limiter, product-page finder, location extractor) as a    *)
(* state machine.                                                          *)
(*                                                                         *)
(* Time is a logical clock `now` that only the action Tick advances; a     *)
(* time.sleep(s) blocks its caller until the clock has reached the wake    *)
(* time.  SpecRL is the rate limiter on its own, under a freely running    *)
(* clock; Spec is a run of crawl_from_csv.  SpecMR is make_request on its  *)
(* own, SpecVerify is _verify_product_page and SpecEx is extract_location, *)
(* each called with any arguments.  SpecRL2 is the rate limiter shared by  *)
(* two threads, SpecText is _extract_postal_code_and_city over a set of    *)
(* texts and SpecExport is export_to_json of database.py.                  *)
(***************************************************************************)
EXTENDS Integers, Sequences, FiniteSets, TLC

(***************************************************************************)
(* Bounds of the model.                                                    *)
(***************************************************************************)
\* The clock stops at MaxTime.
MaxTime == 6
\* RateLimiter(delay_seconds): the constructor parameter, in clock ticks.
delay_seconds == 2

None == "None"

(***************************************************************************)
(* Strings.  TLC's strings are sequences of characters: Len, SubSeq, Head, *)
(* Tail and \o apply to them.                                              *)
(***************************************************************************)
UpperAlpha == "ABCDEFGHIJKLMNOPQRSTUVWXYZ"
LowerAlpha == "abcdefghijklmnopqrstuvwxyz"

Char(s, i) == SubSeq(s, i, i)

UpperChars == {Char(UpperAlpha, i) : i \in 1..Len(UpperAlpha)}
LowerChars == {Char(LowerAlpha, i) : i \in 1..Len(LowerAlpha)}

LowerMap ==
    [c \in UpperChars |->
        Char(LowerAlpha, CHOOSE i \in 1..Len(UpperAlpha) : Char(UpperAlpha, i) = c)]
UpperMap ==
    [c \in LowerChars |->
        Char(UpperAlpha, CHOOSE i \in 1..Len(LowerAlpha) : Char(LowerAlpha, i) = c)]

RECURSIVE Lower(_)
\* str.lower()
Lower(s) ==
    IF s = "" THEN ""
    ELSE (IF Head(s) \in UpperChars THEN LowerMap[Head(s)] ELSE Head(s)) \o Lower(Tail(s))

RECURSIVE Upper(_)
\* str.upper()
Upper(s) ==
    IF s = "" THEN ""
    ELSE (IF Head(s) \in LowerChars THEN UpperMap[Head(s)] ELSE Head(s)) \o Upper(Tail(s))

\* needle in hay
Contains(hay, needle) ==
    \E i \in 1..(Len(hay) - Len(needle) + 1) :
        SubSeq(hay, i, i + Len(needle) - 1) = needle

\* s.startswith(prefix)
StartsWith(s, prefix) ==
    Len(s) >= Len(prefix) /\ SubSeq(s, 1, Len(prefix)) = prefix

(***************************************************************************)
(* URLs.  A URL is a record: its authority (dom), its path, and the rest   *)
(* (query and fragment); the scheme is https throughout.  A relative       *)
(* reference has the authority "".                                         *)
(***************************************************************************)
Domains == {"a.nl", "b.nl"}

\* the search engine and a site that is no bookstore of the input
GoogleDomain == "www.google.com"
OtherDomain == "elders.nl"

Url(d, p, r) == [dom |-> d, path |-> p, rest |-> r]

\* the absent URL (None)
NoUrl == Url("", "", "")

\* the URL as text
UrlString(u) == "https://" \o u.dom \o u.path \o u.rest

\* an href attribute as text
HrefString(h) == IF h.dom = "" THEN h.path \o h.rest ELSE UrlString(h)

\* a bookstore's homepage, "https://<d>/"
Homepage(d) == Url(d, "/", "")

\* urljoin(base, href) for an absolute href or an absolute-path reference
urljoin(base, href) == IF href.dom = "" THEN Url(base.dom, href.path, href.rest) ELSE href

\* a limiter that keeps one stamp for all domains
netloc_global(url) == "*"
\* urlparse(url).netloc
netloc(url) == url.dom

(***************************************************************************)
(* State.                                                                  *)
(***************************************************************************)
VARIABLES
    now,                \* datetime.now()
    last_request_time,  \* RateLimiter.last_request_time: domain -> time
    rl,                 \* wait_if_needed: each caller's position in a call
    csv,                \* crawl_from_csv: the rows read from the input file
    use_google,         \* CRAWLER_CONFIG["use_google_search"]
    respect_robots,     \* BookstoreCrawler(respect_robots)
    parsers,            \* RobotsChecker.parsers: domain -> parsed robots policy
    pc,                 \* the orchestrator's position in crawl_from_csv / crawl_bookstore
    processed,          \* bookstores of the input handled so far
    bookstore,          \* the input record being processed
    result,             \* crawl_bookstore's result dictionary
    finder,             \* ProductPageFinder: the locals of the running strategy
    extractor,          \* LocationExtractor.extract_location: its locals
    successful,         \* crawl_from_csv: the count of successes
    failed,             \* crawl_from_csv: the count of failures
    last_req,           \* history: the latest HTTP request and how it was issued
    returned,           \* history: what find_product_page has just returned, and
                        \* the response it was accepted on
    waited_for,         \* history: authorities waited on since their latest request
    robots_fetched,     \* history: per authority, the robots.txt requests of the run
    mr,                 \* make_request: the locals of the running call, with the
                        \* GETs and sleeps it has made
    ex,                 \* extract_location called on its own: its arguments and
                        \* locals, with the requests it has made
    tx,                 \* _extract_postal_code_and_city called on its own: its
                        \* argument and what it returned
    upserts,            \* history: the homepage_url of each db.upsert_bookstore
                        \* call of the run, in call order
    readable,           \* whether the input file can be opened and parsed
    crawl_runs,         \* history: the number of db.start_crawl_run calls
    xp                  \* export_to_json called on its own: the store's successful
                        \* records, the rows of the manual file and the export

rlVars == <<now, last_request_time, rl, waited_for>>
confVars == <<csv, readable, use_google, respect_robots>>
netVars == <<last_req, returned, robots_fetched>>
crawlVars == <<parsers, pc, processed, bookstore, result, finder, extractor,
               successful, failed>>
vars == <<rlVars, confVars, netVars, crawlVars, mr, ex, tx, upserts, crawl_runs,
          xp>>

(***************************************************************************)
(* RateLimiter (utils.py).                                                 *)
(***************************************************************************)
Callers == {1, 2}

RlIdle == [pc |-> "idle", url |-> NoUrl, domain |-> "", slept |-> 0, wake |-> 0]

\* dict assignment d[k] = v
DictPut(f, k, v) == [x \in (DOMAIN f) \cup {k} |-> IF x = k THEN v ELSE f[x]]

EmptyDict == [x \in {} |-> None]

\* a limiter that sleeps one tick short
sleep_time_short(elapsed) == IF elapsed < delay_seconds THEN delay_seconds - elapsed - 1 ELSE 0
\* utils.py:44-45: the time to sleep, 0 when no sleep is made
sleep_time(elapsed) == IF elapsed < delay_seconds THEN delay_seconds - elapsed ELSE 0

\* utils.py:38-47: the call reads the clock, compares and starts its sleep
RL_Begin(c, url) ==
    /\ rl[c].pc = "idle"
    /\ LET domain == netloc(url)
           s == IF domain \in DOMAIN last_request_time
                THEN sleep_time(now - last_request_time[domain])
                ELSE 0
       IN rl' = [rl EXCEPT ![c] = [pc |-> IF s > 0 THEN "sleep" ELSE "update",
                                   url |-> url, domain |-> domain,
                                   slept |-> s, wake |-> now + s]]
    /\ UNCHANGED <<now, last_request_time, waited_for>>

\* utils.py:47: time.sleep returns once the clock has reached the wake time
RL_Wake(c) ==
    /\ rl[c].pc = "sleep"
    /\ now >= rl[c].wake
    /\ rl' = [rl EXCEPT ![c].pc = "update"]
    /\ UNCHANGED <<now, last_request_time, waited_for>>

\* utils.py:49: the call stamps the domain and returns
RL_Update(c) ==
    /\ rl[c].pc = "update"
    /\ last_request_time' = DictPut(last_request_time, rl[c].domain, now)
    /\ rl' = [rl EXCEPT ![c] = RlIdle]
    /\ waited_for' = waited_for \cup {rl[c].url.dom}
    /\ UNCHANGED now

\* The clock is read by wait_if_needed alone (utils.py:41), and compared with
\* the stamp of the URL's domain.  Where the limiter is used on its own, time
\* passes freely.  In a run of the crawler time 0 is the time of the first
\* stamp, the requests are taken to return at once, time.sleep to last as long
\* as asked, and the time between two bookstores passes before the next call
\* starts, for as long as the call can tell the difference: until the stamp of
\* its domain is delay_seconds old.  make_request on its own sleeps likewise.
ClockRead ==
    \/ pc \in {"limiter", "limiters"}
    \/ /\ pc = "rate_limit"
       /\ netloc(bookstore.url) \in DOMAIN last_request_time
       /\ now - last_request_time[netloc(bookstore.url)] < delay_seconds
    \/ rl[1].pc = "sleep" /\ now < rl[1].wake
    \/ mr.pc = "sleep" /\ now < mr.wake

\* the clock advances
Tick ==
    /\ now < MaxTime
    /\ ClockRead
    /\ now' = now + 1
    /\ UNCHANGED <<last_request_time, rl, waited_for>>
    /\ UNCHANGED <<mr, ex, tx, upserts, crawl_runs, xp, confVars, netVars, crawlVars>>

(***************************************************************************)
(* The network.  The latest HTTP request made for the bookstore is         *)
(* recorded when it is issued: who issued it, when, whether wait_if_needed *)
(* had returned for its authority since the authority's previous request,  *)
(* and whether the request before it went to the same authority fewer than *)
(* delay_seconds earlier.                                                  *)
(***************************************************************************)
\* no request has been made
NoRequest == [url |-> NoUrl, by |-> "", at |-> 0, waited |-> FALSE, early |-> FALSE]

Request(url, by) ==
    [url |-> url, by |-> by, at |-> now,
     waited |-> url.dom \in waited_for,
     early |-> last_req.url.dom = url.dom /\ now - last_req.at < delay_seconds]

Issue(url, by) ==
    /\ last_req' = Request(url, by)
    /\ waited_for' = waited_for \ {url.dom}

(***************************************************************************)
(* RobotsChecker (utils.py).  A parsed robots.txt is the set of the path   *)
(* prefixes it disallows for the crawler's user agent.                     *)
(***************************************************************************)
AllowAll == {}
DisallowBoek == {"/boek/"}
DisallowAll == {"/"}
Policies == {AllowAll, DisallowBoek, DisallowAll}

\* what the GET of robots.txt can give: an exception, or a policy
Unreadable == [ok |-> FALSE, policy |-> AllowAll]
RobotsOutcomes == {Unreadable} \cup {[ok |-> TRUE, policy |-> p] : p \in Policies}

\* utils.py:76
RobotsUrl(url) == Url(url.dom, "/robots.txt", "")

\* RobotFileParser.can_fetch(user_agent, url)
parser_can_fetch(policy, url) == \A r \in policy : ~StartsWith(url.path, r)

\* a checker that turns the bookstore down when robots.txt could not be read
unreadable_disallows == FALSE
\* utils.py:88-92: the answer when robots.txt could not be read
unreadable_allows == TRUE

\* utils.py:75: whether can_fetch has to request robots.txt
needs_robots_fetch(ps, url) == netloc(url) \notin DOMAIN ps

\* utils.py:80-92: the cache after the request ended in `out`
parsers_after(ps, url, out) ==
    IF needs_robots_fetch(ps, url) /\ out.ok
    THEN DictPut(ps, netloc(url), out.policy)
    ELSE ps

\* utils.py:66-103: can_fetch's answer, `out` being the outcome of the request
\* of robots.txt when one is made
can_fetch(ps, url, out) ==
    IF needs_robots_fetch(ps, url) /\ ~out.ok
    THEN unreadable_allows
    ELSE parser_can_fetch(parsers_after(ps, url, out)[netloc(url)], url)

(***************************************************************************)
(* make_request (utils.py).  One GET ends in a status code or in an        *)
(* exception of the requests library.                                      *)
(***************************************************************************)
\* The largest max_retries a call is made with.
MaxRetries == 2

Statuses == {200, 204, 403, 404, 429, 500, 503}
Exceptions == {"Timeout", "ConnectionError", "RequestException"}

\* what requests.get can end in
Outcome(s, e) == [status |-> s, exc |-> e]
NoOutcome == Outcome(0, None)
Outcomes == {Outcome(s, None) : s \in Statuses} \cup {Outcome(0, e) : e \in Exceptions}

\* a make_request that takes every failure for a passing one
retryable_always(outcome) == TRUE
\* utils.py:153, 163, 170: the outcomes after which another attempt is considered
retryable(outcome) ==
    IF outcome.exc = None
    THEN outcome.status # 200 /\ outcome.status # 404 /\ outcome.status # 403
         /\ outcome.status >= 500
    ELSE outcome.exc \in {"Timeout", "ConnectionError"}

\* a make_request that retries once more
may_retry_once_more(attempt, max_retries) == attempt <= max_retries
\* utils.py:155, 165, 172
may_retry(attempt, max_retries) == attempt < max_retries

\* a make_request that waits one second before every retry
backoff_constant(attempt) == 1
\* utils.py:156, 166, 173: the argument of time.sleep
backoff(attempt) == 2 ^ attempt

\* the result of a call that got a response with status 200
Response200 == "Response"

MrIdle ==
    [pc |-> "idle", url |-> NoUrl, max_retries |-> 0, attempt |-> 0, gets |-> 0,
     sleeps |-> <<>>, wake |-> 0, start |-> 0, outcome |-> NoOutcome, result |-> None]

\* utils.py:106-139: make_request(url, user_agent, timeout, max_retries) is
\* called; the call is started while the clock leaves room for its sleeps
MR_Call(url, max_retries) ==
    /\ mr.pc \in {"idle", "returned"}
    /\ now + 2 ^ max_retries - 1 <= MaxTime
    /\ mr' = [MrIdle EXCEPT !.pc = "get", !.url = url, !.max_retries = max_retries,
                            !.start = now]

\* utils.py:139-179: one pass of the loop, from the GET to the return or to
\* the start of the sleep
MR_Attempt ==
    /\ mr.pc = "get"
    /\ \E outcome \in Outcomes :
        LET got == [mr EXCEPT !.gets = @ + 1, !.outcome = outcome]
        IN IF outcome.exc = None /\ outcome.status = 200
           THEN mr' = [got EXCEPT !.pc = "returned", !.result = Response200]
           ELSE IF retryable(outcome) /\ may_retry(mr.attempt, mr.max_retries)
           THEN mr' = [got EXCEPT !.pc = "sleep",
                                  !.sleeps = Append(@, backoff(mr.attempt)),
                                  !.wake = now + backoff(mr.attempt)]
           ELSE mr' = [got EXCEPT !.pc = "returned", !.result = None]

\* utils.py:156-157, 166-167, 173-174: time.sleep returns, `continue` starts
\* the next pass
MR_Wake ==
    /\ mr.pc = "sleep"
    /\ now >= mr.wake
    /\ mr' = [mr EXCEPT !.pc = "get", !.attempt = @ + 1]

(***************************************************************************)
(* The orchestrator: crawl_from_csv's loop and crawl_bookstore (main.py).  *)
(***************************************************************************)
\* The run handles at most MaxStores input records.
MaxStores == 2

\* a Dutch code as parse_libris.py:54-59 writes it, and a Belgian one
\* (parse_libris.py:61-65)
PrefilledPostalCodes == {None, "1234 AB", "2000"}
PrefilledCities == {None, "Amsterdam"}

\* the rows the CSV can hold
Bookstores ==
    [name : {"Boekhandel X"}, url : {Homepage(d) : d \in Domains},
     postal_code : PrefilledPostalCodes, city : PrefilledCities]

\* the rows that carry a name and a URL only
PlainRows == {b \in Bookstores : b.postal_code = None /\ b.city = None}

\* the input files: any one row, or up to MaxStores plain rows; the sites
\* being interchangeable, the first row is a.nl's
CsvFiles ==
    {f \in {<<b>> : b \in Bookstores} \cup UNION {[1..n -> PlainRows] : n \in 2..MaxStores} :
        f[1].url = Homepage("a.nl")}

NoBookstore == [name |-> None, url |-> NoUrl, postal_code |-> None, city |-> None]

\* main.py:95-103
InitialResult(b) ==
    [name |-> b.name, homepage_url |-> b.url, product_url |-> NoUrl,
     postal_code |-> b.postal_code, city |-> b.city,
     success |-> FALSE, error_message |-> None]

NoResult == InitialResult(NoBookstore)

\* Python truth of an optional string
Truthy(x) == x # None /\ x # ""

\* the finder's locals when no strategy is running
NoFinder ==
    [k |-> 0, cands |-> <<>>, stage |-> "", search_url |-> NoUrl,
     home_links |-> <<>>, catalog_links |-> <<>>]

\* a crawl_from_csv that starts the crawl run before it reads the input
ReadCsv_starts_first ==
    /\ pc = "start"
    /\ pc' = IF readable THEN "idle" ELSE "error"
    /\ crawl_runs' = crawl_runs + 1
    /\ UNCHANGED <<rlVars, mr, ex, tx, upserts, xp, confVars, netVars, parsers,
                   processed, bookstore, result, finder, extractor, successful, failed>>

\* main.py:176-204: the input is read; when that raises, the error is returned
\* (main.py:189-191), otherwise the crawl run is started (main.py:201)
ReadCsv ==
    /\ pc = "start"
    /\ pc' = IF readable THEN "idle" ELSE "error"
    /\ crawl_runs' = IF readable THEN crawl_runs + 1 ELSE crawl_runs
    /\ UNCHANGED <<rlVars, mr, ex, tx, upserts, xp, confVars, netVars, parsers,
                   processed, bookstore, result, finder, extractor, successful, failed>>

\* main.py:208-216: the loop takes the next row and calls crawl_bookstore
Begin ==
    /\ pc = "idle"
    /\ processed < Len(csv)
    /\ bookstore' = csv[processed + 1]
    /\ result' = InitialResult(csv[processed + 1])
    /\ pc' = "robots"
    /\ UNCHANGED <<rlVars, mr, ex, tx, upserts, crawl_runs, xp, confVars, netVars,
                   parsers, processed, finder, extractor, successful, failed>>

\* main.py:107-110 when no RobotsChecker was made
RobotsSkipped ==
    /\ pc = "robots"
    /\ ~respect_robots
    /\ pc' = "rate_limit"
    /\ UNCHANGED <<rlVars, mr, ex, tx, upserts, crawl_runs, xp, confVars, netVars,
                   parsers,
                   processed, bookstore,
                   result, finder, extractor, successful, failed>>

\* a crawler that records the disallow and goes on
after_disallow_goes_on == "rate_limit"
\* main.py:108-110: where crawl_bookstore is after a disallow (it returns)
after_disallow == "done"

\* main.py:107-110, utils.py:66-103
RobotsCheck ==
    /\ pc = "robots"
    /\ respect_robots
    /\ \E out \in RobotsOutcomes :
        LET url == bookstore.url
            fetch == needs_robots_fetch(parsers, url)
        IN /\ IF fetch
              THEN /\ Issue(RobotsUrl(url), "robots")
                   /\ robots_fetched' =
                        [robots_fetched EXCEPT ![url.dom] = @ + 1]
              ELSE /\ out = Unreadable
                   /\ UNCHANGED <<netVars, waited_for>>
           /\ parsers' = parsers_after(parsers, url, out)
           /\ IF can_fetch(parsers, url, out)
              THEN /\ pc' = "rate_limit"
                   /\ UNCHANGED result
              ELSE /\ pc' = after_disallow
                   /\ result' = [result EXCEPT
                                   !.error_message = "Disallowed by robots.txt"]
    /\ UNCHANGED <<now, last_request_time, rl, mr, ex, tx, upserts, crawl_runs, xp,
                   confVars,
                   returned, processed,
                   bookstore, finder, extractor, successful, failed>>

\* main.py:113: wait_if_needed(url) is called
RateLimit ==
    /\ pc = "rate_limit"
    /\ RL_Begin(1, bookstore.url)
    /\ pc' = "rate_limit_wait"
    /\ UNCHANGED <<mr, ex, tx, upserts, crawl_runs, xp, confVars, netVars, parsers,
                   processed,
                   bookstore, result, finder,
                   extractor, successful, failed>>

\* utils.py:47: the sleep of the running call of wait_if_needed ends
RateLimiterSleeps ==
    /\ RL_Wake(1)
    /\ UNCHANGED <<mr, ex, tx, upserts, crawl_runs, xp, confVars, netVars, crawlVars>>

\* main.py:113-117: the wait is over, find_product_page is called
RateLimited ==
    /\ pc = "rate_limit_wait"
    /\ RL_Update(1)
    /\ pc' = "known"
    /\ finder' = [NoFinder EXCEPT !.k = 1]
    /\ UNCHANGED <<mr, ex, tx, upserts, crawl_runs, xp, confVars, netVars, parsers,
                   processed,
                   bookstore, result,
                   extractor, successful, failed>>

(***************************************************************************)
(* The book (config.py) and the pages the sites can serve.                 *)
(***************************************************************************)
\* BOOK_CONFIG["title"], ["author"], ["isbn"]
BookTitle == "Zanger Ronald zingt de blues"
BookAuthor == "Walter van den Berg"
BookIsbn == "9789048853366"

\* response.text of the pages a request can return
B_full == "Zanger Ronald zingt de blues, Walter van den Berg, ISBN 9789048853366"
B_title_author == "ZANGER RONALD ZINGT DE BLUES - Walter Van Den Berg"
B_title == "Zanger Ronald zingt de blues"
B_variant == "Boekentip: Zanger Ronald"
B_variant_author == "Zanger Ronald, de roman van Walter van den Berg"
B_author == "Alle boeken van Walter van den Berg"
B_isbn == "Artikel 9789048853366"
B_none == "Pagina niet gevonden"

Bodies == {B_full, B_title_author, B_title, B_variant, B_variant_author,
           B_author, B_isbn, B_none}

\* make_request's result: None, or a response with this text
NoResponse == "None"
Responses == {NoResponse} \cup Bodies

\* html_lower of each page, computed once
BodyLower == [b \in Bodies |-> Lower(b)]

\* google_search.py:363-367
has_title(text) ==
    \/ Contains(BodyLower[text], Lower(BookTitle))
    \/ Contains(BodyLower[text], "zanger ronald")
has_author(text) ==
    \/ Contains(BodyLower[text], Lower(BookAuthor))
    \/ Contains(BodyLower[text], "walter van den berg")
has_isbn(text) == Contains(text, BookIsbn)

\* a verification that accepts every page it could fetch
verify_fetched(response) == response # NoResponse
\* google_search.py:355-375: _verify_product_page on the response it got
verify_product_page(response) ==
    /\ response # NoResponse
    /\ (has_title(response) /\ has_author(response)) \/ has_isbn(response)

\* google_search.py:101-105: the check of a known URL pattern's response
known_pattern_matches(response) ==
    /\ response # NoResponse
    /\ Contains(BodyLower[response], "zanger ronald") \/ Contains(response, BookIsbn)

\* google_search.py:89-93
patterns ==
    << [path |-> "/a/walter-van-den-berg/zanger-ronald-zingt-de-blues/501634390",
        rest |-> "#paperback-9789048853366"],
       [path |-> "/a/walter-van-den-berg/zanger-ronald-zingt-de-blues/501634390",
        rest |-> ""],
       [path |-> "/boek/",
        rest |-> "?authortitle=walter-van-den-berg/zanger-ronald-zingt-de-blues--9789048853366"] >>

\* google_search.py:84-96: base_url + pattern
test_url(site_url, k) == Url(netloc(site_url), patterns[k].path, patterns[k].rest)

\* utils.py:233-246: is_likely_product_page(url), called without html
product_indicators ==
    <<"/product/", "/boek/", "/boeken/", "/artikel/", "/item/", "/p/", "isbn",
      "zanger-ronald">>

is_likely_product_page(url) ==
    \E i \in 1..Len(product_indicators) :
        Contains(Lower(UrlString(url)), product_indicators[i])

(***************************************************************************)
(* HTML.  A parsed page (the soup) is its forms and its <a href> links in  *)
(* document order; a link is its href and its text.                        *)
(***************************************************************************)
Link(h, t) == [href |-> h, text |-> t]
Form(a, i) == [action |-> a, inputs |-> i]

L_book == Link(Url("", "/boek/zanger-ronald-zingt-de-blues", ""), "Zanger Ronald zingt de blues")
L_book_news == Link(Url("", "/nieuws/123", ""), "Nieuw: Zanger Ronald")
L_book_other == Link(Url(OtherDomain, "/p/501634390", ""), "Zanger Ronald zingt de blues")
L_boeken == Link(Url("", "/boeken", ""), "Boeken")
L_catalogus == Link(Url("", "/catalogus", ""), "Catalogus")
L_assortiment == Link(Url("", "/collectie", ""), "Ons assortiment")
L_literatuur == Link(Url("", "/literatuur", ""), "Literatuur")
L_agenda == Link(Url("", "/agenda", ""), "Agenda")

F_q == Form("/zoeken", <<"q">>)
F_zoekterm == Form("", <<"type", "Zoekterm">>)
F_email == Form("/nieuwsbrief", <<"email">>)

Soup(f, l) == [forms |-> f, links |-> l]

\* the homepages a site can serve
HomePages ==
    { Soup(<<>>, <<>>),
      Soup(<<F_email, F_q>>, <<L_agenda>>),
      Soup(<<>>, <<L_agenda, L_book, L_boeken>>),
      Soup(<<F_email>>, <<L_book_other>>),
      Soup(<<F_zoekterm>>, <<L_boeken, L_catalogus, L_boeken, L_assortiment, L_literatuur>>) }

\* the search-result and catalog pages a site can serve
ResultPages ==
    { Soup(<<>>, <<>>),
      Soup(<<>>, <<L_book_news, L_book>>),
      Soup(<<>>, <<L_book_other>>) }

\* q without the repetitions of its elements ("if full_url not in ...")
RECURSIVE Dedup(_)
Dedup(q) ==
    IF q = <<>> THEN <<>>
    ELSE LET front == Dedup(SubSeq(q, 1, Len(q) - 1))
             last == q[Len(q)]
         IN IF \E i \in 1..Len(front) : front[i] = last THEN front
            ELSE Append(front, last)

\* q[:n]
Take(q, n) == SubSeq(q, 1, IF Len(q) < n THEN Len(q) ELSE n)

(***************************************************************************)
(* ProductPageFinder (google_search.py).                                   *)
(***************************************************************************)
\* google_search.py:217, 307: the link's text mentions the book
mentions_book(text) ==
    \/ Contains(Lower(text), Lower(BookTitle))
    \/ Contains(Lower(text), "zanger ronald")

\* google_search.py:302-312, 212-223: the links of a page that are verified,
\* in the order they are
book_links(soup, base_url) ==
    LET hits == SelectSeq(soup.links,
                    LAMBDA l : /\ mentions_book(l.text)
                               /\ is_likely_product_page(urljoin(base_url, l.href)))
    IN [i \in 1..Len(hits) |-> urljoin(base_url, hits[i].href)]

\* google_search.py:321
catalog_keywords == <<"boeken", "books", "catalog", "catalogus", "assortiment", "literatuur">>

\* google_search.py:316-334: _find_catalog_links
find_catalog_links(soup, base_url) ==
    LET hits == SelectSeq(soup.links,
                    LAMBDA l : \E i \in 1..Len(catalog_keywords) :
                        \/ Contains(Lower(HrefString(l.href)), catalog_keywords[i])
                        \/ Contains(Lower(l.text), catalog_keywords[i]))
    IN Dedup([i \in 1..Len(hits) |-> urljoin(base_url, hits[i].href)])

\* google_search.py:272
search_keywords == <<"search", "query", "q", "zoek">>

is_search_input(name) ==
    \E i \in 1..Len(search_keywords) : Contains(Lower(name), search_keywords[i])

\* quote_plus(BOOK_CONFIG["title"])
QuotedTitle == "Zanger+Ronald+zingt+de+blues"

\* google_search.py:262-282: the URL built from the first search-like input of
\* the first form that has one, NoUrl when no form has one
search_url_of_forms(soup, base_url) ==
    LET found == SelectSeq(soup.forms,
                    LAMBDA f : \E i \in 1..Len(f.inputs) : is_search_input(f.inputs[i]))
    IN IF found = <<>> THEN NoUrl
       ELSE LET form == found[1]
                name == Lower(SelectSeq(form.inputs, is_search_input)[1])
                search_path == IF form.action = "" THEN "/search" ELSE form.action
            IN Url(base_url.dom, search_path, "?" \o name \o "=" \o QuotedTitle)

\* google_search.py:255-260
search_patterns == <<"/zoeken", "/search", "/zoek", "/catalogsearch/result">>

\* google_search.py:243-291: _find_search_url
find_search_url(soup, base_url) ==
    IF search_url_of_forms(soup, base_url) # NoUrl
    THEN search_url_of_forms(soup, base_url)
    ELSE Url(base_url.dom, search_patterns[1], "?q=" \o QuotedTitle)

\* google_search.py:128-138: the search URL of query k
QuotedAuthor == "Walter+van+den+Berg"

google_url(domain, k) ==
    Url(GoogleDomain, "/search",
        "?q=site%3A" \o domain \o
        (CASE k = 1 -> "+%22" \o QuotedTitle \o "%22+%22" \o QuotedAuthor \o "%22"
           [] k = 2 -> "+%22" \o QuotedTitle \o "%22"
           [] OTHER -> "+" \o BookIsbn))

NumQueries == 3

\* the result pages the search engine can serve for a site: the href of each
\* result, in order
GooglePages(domain) ==
    { <<>>,
      <<Url(domain, "/agenda", ""), Url(domain, "/boek/zanger-ronald-zingt-de-blues", "")>>,
      <<Url(OtherDomain, "/p/501634390", "?ref=" \o domain)>> }

\* google_search.py:154-164: the results that are verified
google_candidates(results, domain) ==
    SelectSeq(Take(results, 5),
        LAMBDA url : Contains(UrlString(url), domain) /\ is_likely_product_page(url))

\* google_search.py:185-223: what the direct crawl takes from each homepage,
\* computed once
HomeFinder ==
    [d \in Domains |-> [soup \in HomePages |->
        [NoFinder EXCEPT
            !.stage = "search",
            !.search_url = find_search_url(soup, Homepage(d)),
            !.home_links = book_links(soup, Homepage(d)),
            !.catalog_links = Take(find_catalog_links(soup, Homepage(d)), 3)]]]

\* google_search.py:293-314: the product links of each result page, computed once
ResultLinks ==
    [d \in Domains |-> [soup \in ResultPages |-> book_links(soup, Homepage(d))]]

\* google_search.py:154-164: the candidates of each page of search-engine
\* results, computed once
GoogleCandidates ==
    [d \in Domains |-> [page \in GooglePages(d) |-> google_candidates(page, d)]]

\* google_search.py:95-97: the URLs of the known patterns, computed once
TestUrls == [d \in Domains |-> [k \in 1..Len(patterns) |-> test_url(Homepage(d), k)]]

\* find_product_page is not returning
NoReturned == [url |-> NoUrl, response |-> NoResponse]

\* a crawl_bookstore that extracts the location whatever was pre-filled
AfterFind_always_extracts(product_url, response) ==
    /\ finder' = NoFinder
    /\ returned' = [url |-> product_url, response |-> response]
    /\ IF product_url = NoUrl
       THEN /\ result' = [result EXCEPT !.error_message = "Product page not found"]
            /\ pc' = "done"
       ELSE /\ result' = [result EXCEPT !.product_url = product_url]
            /\ pc' = "extract_wait"

\* a crawl_bookstore that goes on to the extraction when no product page was
\* found
AfterFind_goes_on(product_url, response) ==
    /\ finder' = NoFinder
    /\ returned' = [url |-> product_url, response |-> response]
    /\ IF product_url = NoUrl
       THEN /\ result' = [result EXCEPT !.error_message = "Product page not found"]
            /\ pc' = "extract_wait"
       ELSE IF Truthy(bookstore.postal_code) /\ Truthy(bookstore.city)
       THEN /\ result' = [result EXCEPT !.product_url = product_url, !.success = TRUE]
            /\ pc' = "done"
       ELSE /\ result' = [result EXCEPT !.product_url = product_url]
            /\ pc' = "extract_wait"

\* main.py:117-133: find_product_page has returned product_url (NoUrl: None)
AfterFind(product_url, response) ==
    /\ finder' = NoFinder
    /\ returned' = [url |-> product_url, response |-> response]
    /\ IF product_url = NoUrl
       THEN /\ result' = [result EXCEPT !.error_message = "Product page not found"]
            /\ pc' = "done"
       ELSE IF Truthy(bookstore.postal_code) /\ Truthy(bookstore.city)
       THEN /\ result' = [result EXCEPT !.product_url = product_url, !.success = TRUE]
            /\ pc' = "done"
       ELSE /\ result' = [result EXCEPT !.product_url = product_url]
            /\ pc' = "extract_wait"

\* find_product_page goes on with the finder's locals f at position p
GoOn(p, f) ==
    /\ pc' = p
    /\ finder' = f
    /\ UNCHANGED <<result, returned>>

\* a finder that asks the search engine whatever the configuration says
AfterKnown_google == GoOn("google", [NoFinder EXCEPT !.k = 1])
\* google_search.py:50, 60: what follows the known URL patterns
AfterKnown ==
    IF use_google THEN GoOn("google", [NoFinder EXCEPT !.k = 1])
    ELSE GoOn("direct_home", NoFinder)

\* google_search.py:95-107: one known URL pattern is requested and checked
TryKnownPattern ==
    /\ pc = "known"
    /\ LET url == TestUrls[netloc(bookstore.url)][finder.k]
       IN /\ Issue(url, "finder")
          /\ \E response \in Responses :
                IF known_pattern_matches(response) THEN AfterFind(url, response)
                ELSE IF finder.k < Len(patterns)
                THEN GoOn("known", [finder EXCEPT !.k = @ + 1])
                ELSE AfterKnown
    /\ UNCHANGED <<now, last_request_time, rl, mr, ex, tx, upserts, crawl_runs, xp,
                   confVars,
                   robots_fetched,
                   parsers, processed, bookstore, extractor, successful, failed>>

\* a direct crawl that scans the catalog pages before the homepage links
AfterStage_catalog_first(f) ==
    CASE f.stage = "google" ->
            IF f.k < NumQueries THEN GoOn("google", [f EXCEPT !.k = @ + 1, !.cands = <<>>])
            ELSE GoOn("direct_home", NoFinder)
      [] f.stage = "search" ->
            IF f.catalog_links # <<>>
            THEN GoOn("direct_catalog", [f EXCEPT !.stage = "catalog", !.k = 1, !.cands = <<>>])
            ELSE IF f.home_links # <<>>
            THEN GoOn("verify", [f EXCEPT !.stage = "links", !.cands = f.home_links])
            ELSE AfterFind(NoUrl, NoResponse)
      [] f.stage = "links" -> AfterFind(NoUrl, NoResponse)
      [] OTHER ->
            IF f.k < Len(f.catalog_links)
            THEN GoOn("direct_catalog", [f EXCEPT !.k = @ + 1, !.cands = <<>>])
            ELSE IF f.home_links # <<>>
            THEN GoOn("verify", [f EXCEPT !.stage = "links", !.cands = f.home_links])
            ELSE AfterFind(NoUrl, NoResponse)

\* what follows when the candidates of a stage are used up (or there were none)
AfterStage(f) ==
    CASE f.stage = "google" ->
            IF f.k < NumQueries THEN GoOn("google", [f EXCEPT !.k = @ + 1, !.cands = <<>>])
            ELSE GoOn("direct_home", NoFinder)
      [] f.stage = "search" ->
            \* google_search.py:205-223
            IF f.home_links # <<>>
            THEN GoOn("verify", [f EXCEPT !.stage = "links", !.cands = f.home_links])
            ELSE IF f.catalog_links # <<>>
            THEN GoOn("direct_catalog", [f EXCEPT !.stage = "catalog", !.k = 1, !.cands = <<>>])
            ELSE AfterFind(NoUrl, NoResponse)
      [] f.stage = "links" ->
            \* google_search.py:225-229
            IF f.catalog_links # <<>>
            THEN GoOn("direct_catalog", [f EXCEPT !.stage = "catalog", !.k = 1, !.cands = <<>>])
            ELSE AfterFind(NoUrl, NoResponse)
      [] OTHER ->
            \* google_search.py:229-241
            IF f.k < Len(f.catalog_links)
            THEN GoOn("direct_catalog", [f EXCEPT !.k = @ + 1, !.cands = <<>>])
            ELSE AfterFind(NoUrl, NoResponse)

\* the candidates found at a stage are verified, if there are any
WithCandidates(f, cands) ==
    IF cands # <<>> THEN GoOn("verify", [f EXCEPT !.cands = cands])
    ELSE AfterStage(f)

\* google_search.py:134-167: one query is sent to the search engine
GoogleSearch ==
    /\ pc = "google"
    /\ LET domain == netloc(bookstore.url)
           f == [finder EXCEPT !.stage = "google"]
       IN /\ Issue(google_url(domain, finder.k), "finder")
          /\ \/ AfterStage(f)
             \/ \E page \in GooglePages(domain) :
                    WithCandidates(f, GoogleCandidates[domain][page])
    /\ UNCHANGED <<now, last_request_time, rl, mr, ex, tx, upserts, crawl_runs, xp,
                   confVars,
                   robots_fetched,
                   parsers, processed, bookstore, extractor, successful, failed>>

\* google_search.py:343-375: _verify_product_page of the next candidate
VerifyCandidate ==
    /\ pc = "verify"
    /\ LET url == Head(finder.cands)
       IN /\ Issue(url, "finder")
          /\ \E response \in Responses :
                IF verify_product_page(response) THEN AfterFind(url, response)
                ELSE WithCandidates(finder, Tail(finder.cands))
    /\ UNCHANGED <<now, last_request_time, rl, mr, ex, tx, upserts, crawl_runs, xp,
                   confVars,
                   robots_fetched,
                   parsers, processed, bookstore, extractor, successful, failed>>

\* google_search.py:181-191: the direct crawl requests the homepage
DirectHome ==
    /\ pc = "direct_home"
    /\ LET site_url == bookstore.url
       IN /\ Issue(site_url, "finder")
          /\ \/ AfterFind(NoUrl, NoResponse)
             \/ \E soup \in HomePages :
                    GoOn("direct_search", HomeFinder[netloc(site_url)][soup])
    /\ UNCHANGED <<now, last_request_time, rl, mr, ex, tx, upserts, crawl_runs, xp,
                   confVars,
                   robots_fetched,
                   parsers, processed, bookstore, extractor, successful, failed>>

\* google_search.py:192-203: the search URL is requested (_find_search_url
\* always builds one, so the test at line 192 always passes)
DirectSearch ==
    /\ pc = "direct_search"
    /\ Issue(finder.search_url, "finder")
    /\ \/ AfterStage(finder)
       \/ \E soup \in ResultPages :
            WithCandidates(finder, ResultLinks[netloc(bookstore.url)][soup])
    /\ UNCHANGED <<now, last_request_time, rl, mr, ex, tx, upserts, crawl_runs, xp,
                   confVars,
                   robots_fetched,
                   parsers, processed, bookstore, extractor, successful, failed>>

\* google_search.py:229-239: one catalog page is requested
DirectCatalog ==
    /\ pc = "direct_catalog"
    /\ Issue(finder.catalog_links[finder.k], "finder")
    /\ \/ AfterStage(finder)
       \/ \E soup \in ResultPages :
            WithCandidates(finder, ResultLinks[netloc(bookstore.url)][soup])
    /\ UNCHANGED <<now, last_request_time, rl, mr, ex, tx, upserts, crawl_runs, xp,
                   confVars,
                   robots_fetched,
                   parsers, processed, bookstore, extractor, successful, failed>>

(***************************************************************************)
(* LocationExtractor: the text functions (extractor.py).                   *)
(***************************************************************************)
Digits == "0123456789"
DigitChars == {Char(Digits, i) : i \in 1..Len(Digits)}
NonZeroDigitChars == DigitChars \ {"0"}
SpaceChars == {" ", "\n", "\t", "\r"}

IsDigit(c) == c \in DigitChars
IsSpace(c) == c \in SpaceChars
IsUpper(c) == c \in UpperChars
\* \w
IsWord(c) == c \in DigitChars \cup UpperChars \cup LowerChars \cup {"_"}

\* config.py:57: [A-EGHJ-NPR-TV-Z], matched with re.IGNORECASE
PostalLetters == "ABCDEGHJKLMNPRSTVWXYZ"
PostalLetterChars == {Char(PostalLetters, i) : i \in 1..Len(PostalLetters)}
IsPostalLetter(c) == Upper(c) \in PostalLetterChars

SetMin(S) == CHOOSE x \in S : \A y \in S : x <= y
SetMax(S) == CHOOSE x \in S : \A y \in S : x >= y

\* the first position from j on that holds no whitespace (Len(text) + 1: none)
SkipSpaces(text, j) ==
    SetMin({k \in j..(Len(text) + 1) : k = Len(text) + 1 \/ ~IsSpace(Char(text, k))})

\* config.py:57: the position of the last character of the match of
\* \b([1-9]\d{3})\s*([A-EGHJ-NPR-TV-Z]{2})\b that starts at i, 0 when none does
MatchEnd(text, i) ==
    LET n == Len(text)
        j == SkipSpaces(text, i + 4)
    IN IF /\ i + 3 <= n
          /\ i = 1 \/ ~IsWord(Char(text, i - 1))
          /\ Char(text, i) \in NonZeroDigitChars
          /\ \A k \in (i + 1)..(i + 3) : IsDigit(Char(text, k))
          /\ j + 1 <= n
          /\ IsPostalLetter(Char(text, j))
          /\ IsPostalLetter(Char(text, j + 1))
          /\ j + 1 = n \/ ~IsWord(Char(text, j + 2))
       THEN j + 1
       ELSE 0

\* the starts of the matches in text
MatchStarts(text) == {i \in 1..Len(text) : MatchEnd(text, i) > 0}

\* extractor.py:162: the postal code built from the match that starts at i
uppercased(letters) == Upper(letters)

\* a postal code built with a hyphen between digits and letters
normalized_hyphen(text, i) ==
    LET e == MatchEnd(text, i)
    IN SubSeq(text, i, i + 3) \o "-" \o uppercased(SubSeq(text, e - 1, e))

normalized(text, i) ==
    LET e == MatchEnd(text, i)
    IN SubSeq(text, i, i + 3) \o " " \o uppercased(SubSeq(text, e - 1, e))

\* the positions where needle occurs in hay
Occurrences(hay, needle) ==
    {i \in 1..(Len(hay) - Len(needle) + 1) : SubSeq(hay, i, i + Len(needle) - 1) = needle}

\* hay.split(needle)[0]
BeforeFirst(hay, needle) ==
    IF Occurrences(hay, needle) = {} THEN hay
    ELSE SubSeq(hay, 1, SetMin(Occurrences(hay, needle)) - 1)

\* hay.split(needle)[-1], for a needle that cannot overlap itself
AfterLast(hay, needle) ==
    IF Occurrences(hay, needle) = {} THEN hay
    ELSE SubSeq(hay, SetMax(Occurrences(hay, needle)) + Len(needle), Len(hay))

\* s.strip(chars)
StripChars(s, chars) ==
    LET keep == {i \in 1..Len(s) : Char(s, i) \notin chars}
    IN IF keep = {} THEN "" ELSE SubSeq(s, SetMin(keep), SetMax(keep))

\* s.strip()
Strip(s) == StripChars(s, SpaceChars)

RECURSIVE Words(_)
\* s.split()
Words(s) ==
    LET t == Strip(s)
        ends == {i \in 1..Len(t) : IsSpace(Char(t, i))}
    IN IF t = "" THEN <<>>
       ELSE IF ends = {} THEN <<t>>
       ELSE <<SubSeq(t, 1, SetMin(ends) - 1)>> \o Words(SubSeq(t, SetMin(ends), Len(t)))

\* re.split(r'[,\n\r]', s)[-1]
LastPart(s) ==
    LET cuts == {i \in 1..Len(s) : Char(s, i) \in {",", "\n", "\r"}}
    IN IF cuts = {} THEN s ELSE SubSeq(s, SetMax(cuts) + 1, Len(s))

RECURSIVE Join(_)
\* " ".join(words)
Join(words) ==
    IF words = <<>> THEN ""
    ELSE IF Len(words) = 1 THEN words[1]
    ELSE words[1] \o " " \o Join(Tail(words))

\* extractor.py:256-260
exclude_words ==
    {"Nederland", "Netherlands", "Tel", "Telefoon", "Email", "Mail", "Website",
     "Openingstijden", "Bezoekadres", "Postadres", "Straat", "Postbus", "KVK",
     "BTW", "IBAN"}

\* a validation that lets every name pass
accepts_any_name(name) == TRUE

\* extractor.py:238-265: _is_valid_city_name
is_valid_city_name(name) ==
    /\ name # ""
    /\ Len(name) >= 3
    /\ IsUpper(Head(name))
    /\ name \notin exclude_words

Punctuation == {".", ",", ";", ":"}

RECURSIVE city_words(_)
\* extractor.py:223-229: the capitalized words at the end of words
city_words(words) ==
    IF words = <<>> THEN <<>>
    ELSE LET word == StripChars(words[Len(words)], Punctuation)
         IN IF word # "" /\ IsUpper(Head(word)) /\ Len(word) > 2
            THEN Append(city_words(SubSeq(words, 1, Len(words) - 1)), word)
            ELSE <<>>

\* extractor.py:183-236: _extract_city_from_context
extract_city_from_context(context, postal_code_match) ==
    LET before_postal == BeforeFirst(context, postal_code_match)
        after_postal == IF Contains(context, postal_code_match)
                        THEN AfterLast(context, postal_code_match) ELSE ""
        after_words == Words(after_postal)
        city_candidate == IF after_words = <<>> THEN ""
                          ELSE StripChars(after_words[1], Punctuation)
        found == city_words(Words(Strip(LastPart(before_postal))))
        city == Join(Take(found, 3))
    IN IF after_words # <<>> /\ is_valid_city_name(city_candidate) THEN city_candidate
       ELSE IF found # <<>> /\ is_valid_city_name(city) THEN city
       ELSE None

NoLocation == [postal_code |-> None, city |-> None]

\* extractor.py:162-169: the postal code and the city of the match at i
location_of_match(text, i) ==
    LET e == MatchEnd(text, i)
        lo == IF i - 100 > 1 THEN i - 100 ELSE 1
        hi == IF e + 20 < Len(text) THEN e + 20 ELSE Len(text)
    IN [postal_code |-> normalized(text, i),
        city |-> extract_city_from_context(SubSeq(text, lo, hi), SubSeq(text, i, e))]

\* an extraction that prefers the first match for which a city is found
extract_best_match(text) ==
    LET with_city == {i \in MatchStarts(text) : location_of_match(text, i).city # None}
    IN IF MatchStarts(text) = {} THEN NoLocation
       ELSE IF with_city = {} THEN location_of_match(text, SetMin(MatchStarts(text)))
       ELSE location_of_match(text, SetMin(with_city))

\* extractor.py:146-181: _extract_postal_code_and_city
extract_postal_code_and_city(text) ==
    IF MatchStarts(text) = {} THEN NoLocation
    ELSE location_of_match(text, SetMin(MatchStarts(text)))

\* _extract_postal_code_and_city called on its own: the text it is given, the
\* tuple it returned, and the postal code found in the returned postal code
TxIdle == [pc |-> "idle", text |-> "", postal_code |-> None, city |-> None, again |-> None]

TX_Call ==
    /\ tx.pc = "idle"
    /\ LET location == extract_postal_code_and_city(tx.text)
       IN tx' = [tx EXCEPT !.pc = "returned", !.postal_code = location.postal_code,
                           !.city = location.city]

TX_Again ==
    /\ tx.pc = "returned"
    /\ tx.postal_code # None
    /\ tx' = [tx EXCEPT !.pc = "again",
                        !.again = extract_postal_code_and_city(tx.postal_code).postal_code]

(***************************************************************************)
(* LocationExtractor: the pages and extract_location (extractor.py).       *)
(* A page is the texts of its elements that match an address selector, in  *)
(* the order the selectors find them, the texts of its footer elements,    *)
(* the text of the whole page, and its links.                              *)
(***************************************************************************)
Page(a, f, t, l) == [address |-> a, footer |-> f, full |-> t, links |-> l]

L_winkel == Link(Url("", "/onze-winkel", ""), "Over de boekhandel")

X_plain == Page(<<>>, <<>>, "Welkom bij Boekhandel X", <<L_agenda, L_winkel>>)
X_footer ==
    Page(<<"Hoofdstraat 1, 1234 AB Voorbeeldstad">>,
         <<"Hoofdstraat 1, 1234 AB Voorbeeldstad">>,
         "Boekhandel X\nHoofdstraat 1, 1234 AB Voorbeeldstad", <<>>)
X_full ==
    Page(<<"Volg ons">>, <<>>, "Boekhandel X\nKeizersgracht 1\n1012ab\nTel 020", <<L_winkel>>)
X_order ==
    Page(<<"Nieuwsbrief", "Postbus 1, 9999 ZZ Ede">>, <<"Den Haag 2511 CV">>,
         "3511 LK Utrecht", <<>>)

\* the pages a site can serve to the extractor
ExtractPages == {X_plain, X_footer, X_full, X_order}

RECURSIVE first_located(_)
\* extractor.py:109-114, 126-131: the first text of texts that holds a postal code
first_located(texts) ==
    IF texts = <<>> THEN NoLocation
    ELSE IF extract_postal_code_and_city(Head(texts)).postal_code # None
    THEN extract_postal_code_and_city(Head(texts))
    ELSE first_located(Tail(texts))

\* a search that looks at the footers before the address elements
extract_from_html_footer_first(page) ==
    IF first_located(page.footer).postal_code # None THEN first_located(page.footer)
    ELSE IF first_located(page.address).postal_code # None THEN first_located(page.address)
    ELSE extract_postal_code_and_city(page.full)
\* extractor.py:71-99: _extract_from_html
extract_from_html(page) ==
    IF first_located(page.address).postal_code # None THEN first_located(page.address)
    ELSE IF first_located(page.footer).postal_code # None THEN first_located(page.footer)
    ELSE extract_postal_code_and_city(page.full)

\* what _extract_from_html gives for each page, computed once
Located == [page \in ExtractPages |-> extract_from_html(page)]

\* config.py:60-68
search_locations ==
    <<"footer", "/contact", "/contacteer-ons", "/neem-contact-op", "/over-ons",
      "/vestigingen", "/winkels">>

\* extractor.py:292
contact_keywords == <<"contact", "over-ons", "about", "vestiging", "winkel", "locatie">>

\* urljoin(base, path) for a path without authority
urljoin_path(base, path) ==
    IF StartsWith(path, "/") THEN Url(base.dom, path, "")
    ELSE LET slashes == {i \in 1..Len(base.path) : Char(base.path, i) = "/"}
         IN Url(base.dom, SubSeq(base.path, 1, SetMax(slashes)) \o path, "")

\* extractor.py:304: the most contact pages one call tries
MaxContactPages == 5

\* a list of contact pages that is not cut
get_contact_page_urls_all(base_url, page) ==
    LET standard == [i \in 1..Len(search_locations) |->
                        urljoin_path(base_url, search_locations[i])]
        hits == SelectSeq(page.links,
                    LAMBDA l : \E i \in 1..Len(contact_keywords) :
                        \/ Contains(Lower(HrefString(l.href)), contact_keywords[i])
                        \/ Contains(Lower(l.text), contact_keywords[i]))
        linked == [i \in 1..Len(hits) |-> urljoin(base_url, hits[i].href)]
    IN Dedup(standard \o linked)
\* extractor.py:267-304: _get_contact_page_urls
get_contact_page_urls(base_url, page) ==
    LET standard == [i \in 1..Len(search_locations) |->
                        urljoin_path(base_url, search_locations[i])]
        hits == SelectSeq(page.links,
                    LAMBDA l : \E i \in 1..Len(contact_keywords) :
                        \/ Contains(Lower(HrefString(l.href)), contact_keywords[i])
                        \/ Contains(Lower(l.text), contact_keywords[i]))
        linked == [i \in 1..Len(hits) |-> urljoin(base_url, hits[i].href)]
    IN Take(Dedup(standard \o linked), MaxContactPages)

ContactUrls == [d \in Domains |->
                    [page \in ExtractPages |-> get_contact_page_urls(Homepage(d), page)]]

NoExtractor == [k |-> 0, contact_urls |-> <<>>]

\* a crawl_bookstore that records no message when no postal code is found
AfterExtract_silent(location) ==
    /\ extractor' = NoExtractor
    /\ pc' = "done"
    /\ IF Truthy(location.postal_code)
       THEN result' = [result EXCEPT
                         !.postal_code = location.postal_code,
                         !.city = IF Truthy(location.city) THEN location.city
                                  ELSE "Unknown",
                         !.success = TRUE]
       ELSE result' = result

\* main.py:145-152: extract_location has returned
AfterExtract(location) ==
    /\ extractor' = NoExtractor
    /\ pc' = "done"
    /\ IF Truthy(location.postal_code)
       THEN result' = [result EXCEPT
                         !.postal_code = location.postal_code,
                         !.city = IF Truthy(location.city) THEN location.city
                                  ELSE "Unknown",
                         !.success = TRUE]
       ELSE result' = [result EXCEPT !.error_message = "Postal code not found"]

\* main.py:136: wait_if_needed(url) is called before the homepage is fetched
ExtractWait ==
    /\ pc = "extract_wait"
    /\ RL_Begin(1, bookstore.url)
    /\ pc' = "extract_rl"
    /\ returned' = NoReturned
    /\ UNCHANGED <<mr, ex, tx, upserts, crawl_runs, xp, confVars, last_req,
                   robots_fetched, parsers,
                   processed, bookstore, result, finder,
                   extractor, successful, failed>>

\* main.py:136-137: the wait is over, the homepage is requested next
ExtractWaited ==
    /\ pc = "extract_rl"
    /\ RL_Update(1)
    /\ pc' = "extract_fetch"
    /\ UNCHANGED <<mr, ex, tx, upserts, crawl_runs, xp, confVars, netVars, parsers,
                   processed,
                   bookstore, result, finder,
                   extractor, successful, failed>>

\* main.py:137-155, extractor.py:45-51: the homepage is requested and searched
FetchHomepage ==
    /\ pc = "extract_fetch"
    /\ Issue(bookstore.url, "orchestrator")
    /\ \/ /\ result' = [result EXCEPT !.error_message = "Could not fetch homepage"]
          /\ pc' = "done"
          /\ UNCHANGED extractor
       \/ \E page \in ExtractPages :
            IF Truthy(Located[page].postal_code) THEN AfterExtract(Located[page])
            ELSE /\ extractor' = [k |-> 1,
                                  contact_urls |-> ContactUrls[bookstore.url.dom][page]]
                 /\ pc' = "contact"
                 /\ UNCHANGED result
    /\ UNCHANGED <<now, last_request_time, rl, mr, ex, tx, upserts, crawl_runs, xp,
                   confVars,
                   returned, robots_fetched,
                   parsers, processed, bookstore, finder, successful, failed>>

\* extractor.py:53-69: one contact page is requested and searched
TryContactPage ==
    /\ pc = "contact"
    /\ Issue(extractor.contact_urls[extractor.k], "extractor")
    /\ \E found \in {NoLocation} \cup {Located[page] : page \in ExtractPages} :
            IF Truthy(found.postal_code) THEN AfterExtract(found)
            ELSE IF extractor.k < Len(extractor.contact_urls)
            THEN /\ extractor' = [extractor EXCEPT !.k = @ + 1]
                 /\ UNCHANGED <<pc, result>>
            ELSE AfterExtract(NoLocation)
    /\ UNCHANGED <<now, last_request_time, rl, mr, ex, tx, upserts, crawl_runs, xp,
                   confVars,
                   returned, robots_fetched,
                   parsers, processed, bookstore, finder, successful, failed>>

(***************************************************************************)
(* extract_location(base_url, html_content) called on its own              *)
(* (extractor.py:33-69), with or without html_content.                     *)
(***************************************************************************)
\* no page: html_content omitted (or empty), or a request that gave no response
NoPage == Page(<<>>, <<>>, "", <<>>)

\* extractor.py:45-48, 62-64: what the search of a page gives, nothing when
\* there is no page
located_on(page) == IF page = NoPage THEN NoLocation ELSE Located[page]

ExIdle ==
    [pc |-> "idle", base_url |-> NoUrl, html |-> NoPage, contact_urls |-> <<>>,
     k |-> 0, requests |-> <<>>, served |-> <<>>, result |-> NoLocation]

\* extractor.py:33-51: the call, up to its return or to its first request; the
\* parser can raise on the page given
EX_Call(base_url, html) ==
    /\ ex.pc \in {"idle", "returned", "raised"}
    /\ LET called == [ExIdle EXCEPT !.base_url = base_url, !.html = html]
       IN \/ /\ html # NoPage
             /\ ex' = [called EXCEPT !.pc = "raised"]
          \/ IF Truthy(located_on(html).postal_code)
             THEN ex' = [called EXCEPT !.pc = "returned", !.result = located_on(html)]
             ELSE ex' = [called EXCEPT
                            !.pc = "contact", !.k = 1,
                            !.contact_urls = get_contact_page_urls(base_url, html)]

\* extractor.py:53-69: one contact page is requested and searched
EX_Contact ==
    /\ ex.pc = "contact"
    /\ \E page \in {NoPage} \cup ExtractPages :
        LET tried == [ex EXCEPT !.requests = Append(@, ex.contact_urls[ex.k]),
                                !.served = Append(@, page)]
        IN \/ /\ page # NoPage
              /\ ex' = [tried EXCEPT !.pc = "raised"]
           \/ IF Truthy(located_on(page).postal_code)
              THEN ex' = [tried EXCEPT !.pc = "returned", !.result = located_on(page)]
              ELSE IF ex.k < Len(ex.contact_urls)
              THEN ex' = [tried EXCEPT !.k = @ + 1]
              ELSE ex' = [tried EXCEPT !.pc = "returned"]

\* the positions inside crawl_bookstore's try block at which a page is parsed
\* (google_search.py:148, 188, 297, extractor.py:82) and its links are joined
\* to the base URL (google_search.py:218, 308, 330, extractor.py:297): the
\* parser can raise, and urljoin raises ValueError on a malformed href
Raising ==
    {"google", "direct_home", "direct_search", "direct_catalog", "extract_fetch",
     "contact"}

\* a crawl_bookstore without the except clause: the exception leaves the loop
Fails_aborts ==
    /\ pc \in Raising
    /\ result' = [result EXCEPT !.error_message = "exception"]
    /\ pc' = "aborted"
    /\ finder' = NoFinder
    /\ extractor' = NoExtractor
    /\ UNCHANGED <<rlVars, mr, ex, tx, upserts, crawl_runs, xp, confVars, netVars,
                   parsers,
                   processed, bookstore,
                   successful, failed>>

\* main.py:157-159: an exception is caught and recorded
Fails ==
    /\ pc \in Raising
    /\ result' = [result EXCEPT !.error_message = "exception"]
    /\ pc' = "done"
    /\ finder' = NoFinder
    /\ extractor' = NoExtractor
    /\ UNCHANGED <<rlVars, mr, ex, tx, upserts, crawl_runs, xp, confVars, netVars,
                   parsers,
                   processed, bookstore,
                   successful, failed>>

\* a loop that upserts the successful results only
Finish_upserts_successes ==
    /\ pc = "done"
    /\ pc' = "idle"
    /\ processed' = processed + 1
    /\ successful' = IF result.success THEN successful + 1 ELSE successful
    /\ failed' = IF result.success THEN failed ELSE failed + 1
    /\ bookstore' = NoBookstore
    /\ result' = NoResult
    /\ upserts' = IF result.success THEN Append(upserts, result.homepage_url) ELSE upserts
    /\ last_req' = NoRequest
    /\ returned' = NoReturned
    /\ UNCHANGED <<rlVars, mr, ex, tx, crawl_runs, xp, confVars, robots_fetched,
                   parsers, finder,
                   extractor>>

\* main.py:219-240: the result is upserted and counted, the loop goes on
Finish ==
    /\ pc = "done"
    /\ pc' = "idle"
    /\ processed' = processed + 1
    /\ successful' = IF result.success THEN successful + 1 ELSE successful
    /\ failed' = IF result.success THEN failed ELSE failed + 1
    /\ bookstore' = NoBookstore
    /\ result' = NoResult
    /\ upserts' = Append(upserts, result.homepage_url)
    /\ last_req' = NoRequest
    /\ returned' = NoReturned
    /\ UNCHANGED <<rlVars, mr, ex, tx, crawl_runs, xp, confVars, robots_fetched,
                   parsers, finder,
                   extractor>>

\* main.py:243-262: after the last row the run is completed and the totals
\* total = len(bookstores), successful and failed are reported
total == Len(csv)

Report ==
    /\ pc = "idle"
    /\ processed = total
    /\ pc' = "reported"
    /\ UNCHANGED <<rlVars, mr, ex, tx, upserts, crawl_runs, xp, confVars, netVars,
                   parsers, processed,
                   bookstore, result, finder, extractor, successful, failed>>

(***************************************************************************)
(* BookstoreDatabase.export_to_json (database.py).  A record is what the   *)
(* export keeps of a row; a string stands for its place in the order of    *)
(* strings through the sequences ExportNames and ExportCities.             *)
(***************************************************************************)
ExportNames == <<"#Atlas", "Atlas", "Boekhuis">>
ExportCities == <<"", "Ede", "Zwolle">>

Rank(q, x) == CHOOSE i \in 1..Len(q) : q[i] = x

Record(n, u, c, at) ==
    [name |-> n, product_url |-> u, postal_code |-> "1234 AB", city |-> c,
     crawled_at |-> at]

\* database.py:352: the key the export is sorted by, (city, name)
SortKey(b) == Rank(ExportCities, b.city) * (Len(ExportNames) + 1) + Rank(ExportNames, b.name)

RECURSIVE Insert(_, _)
\* q, sorted, with b after the records whose key is not greater
Insert(q, b) ==
    IF q = <<>> THEN <<b>>
    ELSE IF SortKey(Head(q)) <= SortKey(b) THEN <<Head(q)>> \o Insert(Tail(q), b)
    ELSE <<b>> \o q

RECURSIVE Sorted(_)
\* database.py:352: list.sort(key=...), a stable sort
Sorted(q) == IF q = <<>> THEN <<>> ELSE Insert(Sorted(SubSeq(q, 1, Len(q) - 1)), q[Len(q)])

\* database.py:304-315: the entries taken from the rows of the manual file
manual_entries_of(rows) ==
    LET kept == SelectSeq(rows, LAMBDA row :
                    /\ ~StartsWith(row.name, "#")
                    /\ row.name # ""
                    /\ row.product_url # "")
    IN [i \in 1..Len(kept) |->
            Record(kept[i].name, kept[i].product_url, kept[i].city, "manual")]

RECURSIVE AddUnseen(_, _)
\* database.py:329-340: the records of q whose name is not in unique yet are
\* appended to unique, in order
AddUnseen(unique, q) ==
    IF q = <<>> THEN unique
    ELSE IF \E i \in 1..Len(unique) : unique[i].name = Head(q).name
    THEN AddUnseen(unique, Tail(q))
    ELSE AddUnseen(Append(unique, Head(q)), Tail(q))

\* an export that lets the crawled records take precedence
unique_crawled_first(bookstores, manual_entries) ==
    Sorted(AddUnseen(AddUnseen(<<>>, bookstores), manual_entries))

\* database.py:325-352: the merged, deduplicated and sorted list
unique_bookstores(bookstores, manual_entries) ==
    Sorted(AddUnseen(AddUnseen(<<>>, manual_entries), bookstores))

\* database.py:365-371: the record written for b
Exported(b) ==
    [name |-> b.name, product_url |-> b.product_url, postal_code |-> b.postal_code,
     city |-> b.city,
     source |-> IF b.crawled_at = "manual" THEN "manual" ELSE "crawled"]

XpIdle == [pc |-> "idle", bookstores |-> <<>>, rows |-> <<>>, out |-> <<>>]

\* database.py:282-378: export_to_json
XP_Export ==
    /\ xp.pc = "called"
    /\ LET unique == unique_bookstores(xp.bookstores, manual_entries_of(xp.rows))
       IN xp' = [xp EXCEPT !.pc = "exported",
                           !.out = [i \in 1..Len(unique) |-> Exported(unique[i])]]

(***************************************************************************)
(* Spec: a run of crawl_from_csv over any input and any site behaviour.    *)
(***************************************************************************)
InitCrawl ==
    /\ now = 0
    /\ last_request_time = EmptyDict
    /\ rl = [c \in Callers |-> RlIdle]
    /\ waited_for = {}
    /\ parsers = EmptyDict
    /\ processed = 0
    /\ bookstore = NoBookstore
    /\ result = NoResult
    /\ finder = NoFinder
    /\ extractor = NoExtractor
    /\ successful = 0
    /\ failed = 0
    /\ last_req = NoRequest
    /\ returned = NoReturned
    /\ robots_fetched = [d \in Domains |-> 0]
    /\ mr = MrIdle
    /\ ex = ExIdle
    /\ tx = TxIdle
    /\ upserts = <<>>
    /\ crawl_runs = 0
    /\ xp = XpIdle

Init ==
    /\ InitCrawl
    /\ pc = "start"
    /\ readable \in BOOLEAN
    /\ csv \in (IF readable THEN CsvFiles ELSE {<<>>})
    /\ use_google \in BOOLEAN
    /\ respect_robots \in BOOLEAN

Next ==
    \/ ReadCsv
    \/ Begin
    \/ RobotsSkipped
    \/ RobotsCheck
    \/ RateLimit
    \/ RateLimiterSleeps
    \/ RateLimited
    \/ TryKnownPattern
    \/ GoogleSearch
    \/ VerifyCandidate
    \/ DirectHome
    \/ DirectSearch
    \/ DirectCatalog
    \/ ExtractWait
    \/ ExtractWaited
    \/ FetchHomepage
    \/ TryContactPage
    \/ Fails
    \/ Finish
    \/ Report
    \/ Tick

Spec == Init /\ [][Next]_vars

(***************************************************************************)
(* SpecRL: one caller making any sequence of wait_if_needed calls.         *)
(***************************************************************************)
RlUrls == {Homepage("a.nl"), Url("a.nl", "/contact", ""), Homepage("b.nl")}

InitRL ==
    /\ InitCrawl
    /\ pc = "limiter"
    /\ csv = <<>>
    /\ readable = TRUE
    /\ use_google = FALSE
    /\ respect_robots = TRUE

RLCall ==
    /\ \E url \in RlUrls : RL_Begin(1, url)
    /\ UNCHANGED <<mr, ex, tx, upserts, crawl_runs, xp, confVars, netVars, crawlVars>>

RLReturn ==
    /\ pc = "limiter"
    /\ RL_Update(1)
    /\ UNCHANGED <<mr, ex, tx, upserts, crawl_runs, xp, confVars, netVars, crawlVars>>

NextRL == RLCall \/ RateLimiterSleeps \/ RLReturn \/ Tick

SpecRL == InitRL /\ [][NextRL]_vars

(***************************************************************************)
(* SpecRL2: two threads that share one RateLimiter and call wait_if_needed *)
(* at any time.  The steps of a call are its statements: the test of the   *)
(* elapsed time (utils.py:40-44), the sleep (utils.py:47) and the          *)
(* assignment of the stamp (utils.py:49); the class holds no lock.         *)
(***************************************************************************)
InitRL2 ==
    /\ InitCrawl
    /\ pc = "limiters"
    /\ csv = <<>>
    /\ readable = TRUE
    /\ use_google = FALSE
    /\ respect_robots = TRUE

RL2Call ==
    /\ pc = "limiters"
    /\ \E c \in Callers, url \in RlUrls : RL_Begin(c, url)
    /\ UNCHANGED <<mr, ex, tx, upserts, crawl_runs, xp, confVars, netVars, crawlVars>>

RL2Wake ==
    /\ pc = "limiters"
    /\ \E c \in Callers : RL_Wake(c)
    /\ UNCHANGED <<mr, ex, tx, upserts, crawl_runs, xp, confVars, netVars, crawlVars>>

RL2Return ==
    /\ pc = "limiters"
    /\ \E c \in Callers : RL_Update(c)
    /\ UNCHANGED <<mr, ex, tx, upserts, crawl_runs, xp, confVars, netVars, crawlVars>>

NextRL2 == RL2Call \/ RL2Wake \/ RL2Return \/ Tick

SpecRL2 == InitRL2 /\ [][NextRL2]_vars

(***************************************************************************)
(* SpecExport: export_to_json over any successful records of the store     *)
(* (as get_successful_bookstores returns them, ordered by city and name)   *)
(* and any rows of the manual file.                                        *)
(***************************************************************************)
MaxRecords == 2

SeqsUpTo(S, n) == UNION {[1..k -> S] : k \in 0..n}

CrawledUrl == "https://a.nl/boek/zanger-ronald-zingt-de-blues"
ManualUrl == "https://a.nl/p/501634390"

CrawledRecords ==
    {Record(n, CrawledUrl, c, "2025-01-01 12:00:00") :
        n \in {"Atlas", "Boekhuis"}, c \in {"Ede", "Zwolle"}}

\* database.py:225-252: the rows come ordered by city and name
StoreContents ==
    {q \in SeqsUpTo(CrawledRecords, MaxRecords) :
        \A i \in 1..(Len(q) - 1) : SortKey(q[i]) <= SortKey(q[i + 1])}

ManualRows ==
    {[name |-> n, product_url |-> u, city |-> c] :
        n \in {"#Atlas", "Atlas", "Boekhuis"}, u \in {"", ManualUrl}, c \in {"", "Zwolle"}}

ManualFiles == SeqsUpTo(ManualRows, MaxRecords)

InitExport ==
    /\ InitCrawl
    /\ pc = "export"
    /\ csv = <<>>
    /\ readable = TRUE
    /\ use_google = FALSE
    /\ respect_robots = TRUE

XPCall ==
    /\ pc = "export"
    /\ xp.pc = "idle"
    /\ \E b \in StoreContents, rows \in ManualFiles :
            xp' = [XpIdle EXCEPT !.pc = "called", !.bookstores = b, !.rows = rows]
    /\ UNCHANGED <<rlVars, mr, ex, tx, upserts, crawl_runs, confVars, netVars,
                   crawlVars>>

XPExport ==
    /\ pc = "export"
    /\ XP_Export
    /\ UNCHANGED <<rlVars, mr, ex, tx, upserts, crawl_runs, confVars, netVars,
                   crawlVars>>

NextExport == XPCall \/ XPExport

SpecExport == InitExport /\ [][NextExport]_vars

(***************************************************************************)
(* SpecMR: any sequence of make_request calls.  A GET returns at once and  *)
(* time.sleep lasts as long as asked.                                      *)
(***************************************************************************)
InitMR ==
    /\ InitCrawl
    /\ pc = "request"
    /\ csv = <<>>
    /\ readable = TRUE
    /\ use_google = FALSE
    /\ respect_robots = TRUE

MRCall ==
    /\ pc = "request"
    /\ \E url \in RlUrls : \E max_retries \in 0..MaxRetries : MR_Call(url, max_retries)
    /\ UNCHANGED <<rlVars, ex, tx, upserts, crawl_runs, xp, confVars, netVars,
                   crawlVars>>

MRAttempt ==
    /\ MR_Attempt
    /\ UNCHANGED <<rlVars, ex, tx, upserts, crawl_runs, xp, confVars, netVars,
                   crawlVars>>

MRWake ==
    /\ MR_Wake
    /\ UNCHANGED <<rlVars, ex, tx, upserts, crawl_runs, xp, confVars, netVars,
                   crawlVars>>

NextMR == MRCall \/ MRAttempt \/ MRWake \/ Tick

SpecMR == InitMR /\ [][NextMR]_vars

\* the loop of a running call goes on, and the clock advances while it sleeps
SpecMRFair == SpecMR /\ WF_vars(MRAttempt) /\ WF_vars(MRWake) /\ WF_vars(Tick)

(***************************************************************************)
(* SpecVerify: _verify_product_page called on any candidate URL, the site  *)
(* answering with any page or not at all.                                  *)
(***************************************************************************)
\* candidates: URLs that look like product pages, and URLs that do not
VerifyUrls ==
    {TestUrls[d][k] : d \in Domains, k \in {2, 3}}
    \cup {Url(d, p, "") : d \in Domains,
                          p \in {"/boek/zanger-ronald-zingt-de-blues", "/agenda", "/"}}

InitVerify ==
    /\ InitCrawl
    /\ pc = "verifier"
    /\ csv = <<>>
    /\ readable = TRUE
    /\ use_google \in BOOLEAN
    /\ respect_robots = TRUE

\* google_search.py:343-375: _verify_product_page(url); what it was given and
\* what it answered are kept in `returned`
VerifyCall ==
    /\ pc = "verifier"
    /\ \E url \in VerifyUrls : \E response \in Responses :
        /\ Issue(url, "finder")
        /\ returned' = [url |-> IF verify_product_page(response) THEN url ELSE NoUrl,
                        response |-> response]
    /\ UNCHANGED <<now, last_request_time, rl, mr, ex, tx, upserts, crawl_runs, xp,
                   confVars,
                   robots_fetched, crawlVars>>

NextVerify == VerifyCall

SpecVerify == InitVerify /\ [][NextVerify]_vars

(***************************************************************************)
(* SpecEx: any sequence of extract_location calls, the site answering each *)
(* request with any page or not at all.                                    *)
(***************************************************************************)
\* the base URLs extract_location is called with
ExBaseUrls == {Homepage(d) : d \in Domains} \cup {Url("a.nl", "/winkel/", "")}

InitEx ==
    /\ InitCrawl
    /\ pc = "extractor"
    /\ csv = <<>>
    /\ readable = TRUE
    /\ use_google = FALSE
    /\ respect_robots = TRUE

EXCall ==
    /\ pc = "extractor"
    /\ \E base_url \in ExBaseUrls : \E html \in {NoPage} \cup ExtractPages :
            EX_Call(base_url, html)
    /\ UNCHANGED <<rlVars, mr, tx, upserts, crawl_runs, xp, confVars, netVars,
                   crawlVars>>

EXContact ==
    /\ EX_Contact
    /\ UNCHANGED <<rlVars, mr, tx, upserts, crawl_runs, xp, confVars, netVars,
                   crawlVars>>

NextEx == EXCall \/ EXContact

SpecEx == InitEx /\ [][NextEx]_vars

(***************************************************************************)
(* SpecText: _extract_postal_code_and_city called on any text made of an   *)
(* address part, a postal code (digits, gap, letters) and a part after it. *)
(***************************************************************************)
TextBefores ==
    {"", "Keizersgracht 1, ", "Amsterdam, Straat 1, ", "Amsterdam ",
     "Straat 1, Den Haag ", "Sint Jan Den Haag ", "Postcode ", "x"}
TextDigits == {"1012", "0012", "1234"}
TextGaps == {"", " ", "\n"}
TextLetters == {"AB", "ab", "aB", "FO", "AY"}
TextAfters ==
    {"", " Amsterdam", " amsterdam.", " Straat", " Amsterdam (1012 AB)",
     "\n3511 LK Utrecht", "C", " Am"}

CodeText(digits, gap, letters) == digits \o gap \o letters
CodeTexts == {CodeText(d, g, l) : d \in TextDigits, g \in TextGaps, l \in TextLetters}
Texts == {b \o c \o a : b \in TextBefores, c \in CodeTexts, a \in TextAfters}

InitText ==
    /\ InitCrawl
    /\ pc = "text"
    /\ csv = <<>>
    /\ readable = TRUE
    /\ use_google = FALSE
    /\ respect_robots = FALSE

TXText ==
    /\ pc = "text"
    /\ tx = TxIdle
    /\ \E t \in Texts : tx' = [TxIdle EXCEPT !.text = t]
    /\ UNCHANGED <<rlVars, mr, ex, upserts, crawl_runs, xp, confVars, netVars,
                   crawlVars>>

TXCall ==
    /\ pc = "text"
    /\ tx.text # ""
    /\ TX_Call
    /\ UNCHANGED <<rlVars, mr, ex, upserts, crawl_runs, xp, confVars, netVars,
                   crawlVars>>

TXAgain ==
    /\ pc = "text"
    /\ TX_Again
    /\ UNCHANGED <<rlVars, mr, ex, upserts, crawl_runs, xp, confVars, netVars,
                   crawlVars>>

NextText == TXText \/ TXCall \/ TXAgain

SpecText == InitText /\ [][NextText]_vars

(***************************************************************************)
(* The claims.                                                             *)
(***************************************************************************)
\* crawl_bookstore has returned `result` for `bookstore`
Returned == pc = "done"

Disallowed == Returned /\ result.error_message = "Disallowed by robots.txt"

\* C1: in every result crawl_bookstore returns, success is true exactly when
\* product_url is set and either postal_code is set or both a postal code and
\* a city were pre-supplied -- also when only the postal code was pre-supplied.
C1_SuccessIff ==
    Returned =>
        (result.success <=>
            /\ result.product_url # NoUrl
            /\ \/ Truthy(result.postal_code)
               \/ Truthy(bookstore.postal_code) /\ Truthy(bookstore.city))

\* 4 digits, one space, 2 uppercase letters
IsCanonical(code) ==
    /\ Len(code) = 7
    /\ \A i \in 1..4 : Char(code, i) \in DigitChars
    /\ Char(code, 5) = " "
    /\ \A i \in 6..7 : Char(code, i) \in UpperChars

\* C2: in every result crawl_bookstore returns, postal_code is absent or has
\* the canonical form, whether it was extracted or pre-filled.
C2_PostalCanonical ==
    Returned => result.postal_code = None \/ IsCanonical(result.postal_code)

\* C3: every request of the finder and of the extractor is preceded by a
\* rate-limit wait on its domain, and is issued at least delay_seconds after
\* the previous request to that domain.
C3_RequestsRateLimited ==
    last_req.by \in {"finder", "extractor"} => last_req.waited /\ ~last_req.early

\* C4: the finder never requests a candidate URL that the robots policy of the
\* URL's domain disallows.
C4_DisallowedNeverRequested ==
    (last_req.by = "finder" /\ netloc(last_req.url) \in DOMAIN parsers) =>
        parser_can_fetch(parsers[netloc(last_req.url)], last_req.url)

\* C5: every URL find_product_page returns was fetched successfully, and the
\* body held the title and the author, or the ISBN, whichever strategy found it.
C5_ReturnedUrlVerified ==
    returned.url # NoUrl =>
        /\ returned.response # NoResponse
        /\ \/ has_title(returned.response) /\ has_author(returned.response)
           \/ has_isbn(returned.response)

\* the call of wait_if_needed stamps the domain and returns in this step
Stamps == rl[1].pc = "update" /\ rl'[1].pc = "idle"

\* C6: two consecutive calls of wait_if_needed for one domain return at least
\* delay_seconds apart, and the recorded last-request time of the domain is
\* the time the latest call for it returned.
C6_MinInterval ==
    [][Stamps =>
        /\ rl[1].url.dom \in DOMAIN last_request_time =>
                now - last_request_time[rl[1].url.dom] >= delay_seconds
        /\ rl[1].url.dom \in DOMAIN last_request_time'
        /\ last_request_time'[rl[1].url.dom] = now]_vars

\* a second call for a domain has slept and is about to return
C6_Witness ==
    /\ pc = "limiter"
    /\ rl[1].pc = "update"
    /\ rl[1].slept > 0
    /\ now = last_request_time[rl[1].url.dom] + delay_seconds

\* C7: a call of wait_if_needed sleeps only on account of the last-request time
\* of its own domain, and leaves the last-request times of all other domains
\* as they were.
C7_DomainsIndependent ==
    /\ [](rl[1].pc = "sleep" =>
            /\ rl[1].url.dom \in DOMAIN last_request_time
            /\ rl[1].wake = last_request_time[rl[1].url.dom] + delay_seconds)
    /\ [][\A d \in DOMAIN last_request_time :
            (rl[1].pc # "idle" /\ d # rl[1].url.dom) =>
                /\ d \in DOMAIN last_request_time'
                /\ last_request_time'[d] = last_request_time[d]]_vars

\* a call is about to return without having slept, although another domain
\* was requested less than delay_seconds before
C7_Witness ==
    /\ pc = "limiter"
    /\ rl[1].pc = "update"
    /\ rl[1].slept = 0
    /\ rl[1].url.dom \notin DOMAIN last_request_time
    /\ \E e \in DOMAIN last_request_time : now - last_request_time[e] < delay_seconds

\* C8: within one run at most one request for a domain's robots.txt is made,
\* also when the first request failed.
C8_RobotsFetchedOnce == \A d \in Domains : robots_fetched[d] <= 1

\* robots.txt of the bookstore's domain was requested and could not be read
RobotsUnreadable ==
    /\ last_req.by = "robots"
    /\ netloc(last_req.url) = netloc(bookstore.url)
    /\ netloc(bookstore.url) \notin DOMAIN parsers

\* C9: when robots.txt cannot be fetched or parsed, can_fetch allows every URL
\* of the domain and the pipeline goes on to the product search; it does not
\* fail.
C9_UnreadableAllows ==
    /\ \A d \in Domains : \A p \in {"/", "/boek/", "/contact"} :
            can_fetch(EmptyDict, Url(d, p, ""), Unreadable)
    /\ RobotsUnreadable =>
            /\ pc \in {"rate_limit", "rate_limit_wait", "known"}
            /\ result.error_message = None
    /\ Disallowed => netloc(bookstore.url) \in DOMAIN parsers

\* the product search starts after robots.txt could not be read
C9_Witness == RobotsUnreadable /\ pc = "known"

\* C10: when the robots policy disallows the bookstore's URL, processing ends
\* with the robots-disallowed failure (no success, no product_url), no page is
\* requested for the bookstore, and the last-request times are left unchanged.
C10_DisallowedEndsEarly ==
    /\ [](Disallowed =>
            /\ ~result.success
            /\ result.product_url = NoUrl
            /\ last_req.by \in {"", "robots"})
    /\ [][(pc' = "robots" \/ (pc # "done" /\ Disallowed')) =>
            /\ pc \in {"idle", "robots"}
            /\ last_request_time' = last_request_time]_vars

\* a bookstore was turned down by the robots.txt just fetched
C10_Witness == Disallowed /\ last_req.by = "robots"

\* HTTP 404, HTTP 403, any other status that is neither 200 nor >= 500, or a
\* request exception that is neither a timeout nor a connection error
NonRetryableOutcome(o) ==
    \/ o.exc = None /\ o.status \in {403, 404}
    \/ o.exc = None /\ o.status # 200 /\ o.status < 500
    \/ o.exc # None /\ o.exc # "Timeout" /\ o.exc # "ConnectionError"

\* timeout, connection error, HTTP >= 500
RetryableOutcome(o) ==
    \/ o.exc \in {"Timeout", "ConnectionError"}
    \/ o.exc = None /\ o.status >= 500

\* the running call of make_request makes a GET in this step
Gets == mr'.gets = mr.gets + 1

\* C11: make_request never retries a non-retryable outcome: when an attempt
\* ends in one, the call returns failure at once, with no sleep, and every GET
\* of a call but its first follows a retryable outcome.
C11_NoRetryOfTerminal ==
    /\ []((mr.gets > 0 /\ NonRetryableOutcome(mr.outcome)) =>
            mr.pc = "returned" /\ mr.result = None)
    /\ [][(Gets /\ NonRetryableOutcome(mr'.outcome)) => mr'.sleeps = mr.sleeps]_vars
    /\ [][Gets => (mr.gets = 0 \/ RetryableOutcome(mr.outcome))]_vars

\* a call has returned on a 404 that followed a retried failure
C11_Witness ==
    /\ mr.pc = "returned"
    /\ mr.outcome = Outcome(404, None)
    /\ mr.gets = 2
    /\ mr.max_retries = 2
    /\ mr.result = None

\* C12: make_request makes at most max_retries + 1 GETs for one URL: it
\* retries only while fewer than max_retries retries have been made, gives up
\* with failure when all max_retries + 1 attempts failed retryably, and every
\* call returns.
C12_BoundedAttempts ==
    /\ [](/\ mr.gets <= mr.max_retries + 1
          /\ Len(mr.sleeps) <= mr.max_retries
          /\ mr.pc = "sleep" => mr.gets <= mr.max_retries
          /\ (mr.gets = mr.max_retries + 1 /\ RetryableOutcome(mr.outcome)) =>
                mr.pc = "returned" /\ mr.result = None
          /\ (mr.pc = "returned" /\ RetryableOutcome(mr.outcome)) =>
                mr.gets = mr.max_retries + 1)
    /\ (mr.pc = "get") ~> (mr.pc = "returned")

\* a call has given up after max_retries + 1 failed GETs
C12_Witness ==
    /\ mr.pc = "returned"
    /\ mr.max_retries = 2
    /\ mr.gets = 3
    /\ mr.outcome = Outcome(0, "Timeout")
    /\ mr.result = None

RECURSIVE Sum(_)
Sum(q) == IF q = <<>> THEN 0 ELSE Head(q) + Sum(Tail(q))

\* C13: the wait before the retry that follows failed attempt k (k = 0, 1, ..)
\* is 2^k seconds, no wait is made after the last allowed attempt, and a call
\* whose attempts all fail retryably sleeps 2^max_retries - 1 seconds in all.
C13_Backoff ==
    /\ [](\A i \in 1..Len(mr.sleeps) : mr.sleeps[i] = 2 ^ (i - 1))
    /\ [][(mr.pc = "get" /\ mr'.pc = "sleep") =>
            /\ mr'.gets = mr.attempt + 1
            /\ mr.attempt < mr.max_retries
            /\ mr'.wake = now + 2 ^ mr.attempt]_vars
    /\ [][(mr.pc = "sleep" /\ mr'.pc = "get") => now = mr.wake]_vars
    /\ []((mr.pc = "returned" /\ RetryableOutcome(mr.outcome)) =>
            /\ Sum(mr.sleeps) = 2 ^ mr.max_retries - 1
            /\ now - mr.start = 2 ^ mr.max_retries - 1)

\* a call whose three attempts all failed retryably has slept 1 and 2 seconds
C13_Witness ==
    /\ mr.pc = "returned"
    /\ mr.max_retries = 2
    /\ mr.sleeps = <<1, 2>>
    /\ mr.outcome = Outcome(503, None)
    /\ now - mr.start = 3

\* the strategy find_product_page is in: 1 the known URL patterns, 2 the search
\* engine, 3 the direct crawl, 0 when it is not running
StrategyRank ==
    CASE pc = "known" -> 1
      [] pc = "google" \/ (pc = "verify" /\ finder.stage = "google") -> 2
      [] pc \in {"verify", "direct_home", "direct_search", "direct_catalog"} -> 3
      [] OTHER -> 0

\* C14: find_product_page tries the known patterns, then the search engine
\* (only when the configuration enables it), then the direct crawl, and stops
\* at the first strategy that yields a URL: no strategy is followed by an
\* earlier one, no request of the finder is issued once a URL was returned,
\* and no request goes to the search engine when it is disabled.
C14_StrategyOrder ==
    /\ []((StrategyRank = 2 \/ netloc(last_req.url) = GoogleDomain) => use_google)
    /\ [][(StrategyRank = 0 /\ StrategyRank' > 0) => StrategyRank' = 1]_vars
    /\ [][(StrategyRank > 0 /\ StrategyRank' > 0) => StrategyRank' >= StrategyRank]_vars
    /\ [][(StrategyRank = 1 /\ StrategyRank' = 3) => ~use_google]_vars
    /\ [][(returned.url = NoUrl /\ returned'.url # NoUrl) => StrategyRank' = 0]_vars
    /\ [][(last_req' # last_req /\ last_req'.by = "finder") =>
            StrategyRank > 0 /\ returned.url = NoUrl]_vars

\* the direct crawl starts after the search engine was asked and gave nothing
C14_Witness ==
    /\ pc = "direct_home"
    /\ use_google
    /\ netloc(last_req.url) = GoogleDomain

\* text holds s, letter case aside
ContainsCI(text, s) == Contains(Lower(text), Lower(s))

\* _verify_product_page has answered for the URL last requested
Verified == returned.url = last_req.url
VerifyAnswered == pc = "verifier" /\ last_req.by = "finder"
HoldsTitleAndAuthor(text) == ContainsCI(text, BookTitle) /\ ContainsCI(text, BookAuthor)
HoldsNeither(text) == ~ContainsCI(text, BookTitle) /\ ~ContainsCI(text, BookAuthor)

\* C15: any fetched candidate page that holds both the configured title and
\* the configured author (letter case aside) verifies true; any page that
\* holds neither the title nor the author, and not the ISBN either, verifies
\* false, whatever its URL looks like.
C15_Verification ==
    VerifyAnswered =>
        /\ (returned.response # NoResponse /\ HoldsTitleAndAuthor(returned.response))
                => Verified
        /\ (returned.response = NoResponse
            \/ (HoldsNeither(returned.response) /\ ~Contains(returned.response, BookIsbn)))
                => ~Verified

\* C15 as stated: any page that holds neither the title nor the author
\* verifies false.
C15_Verification_AsStated ==
    VerifyAnswered =>
        /\ (returned.response # NoResponse /\ HoldsTitleAndAuthor(returned.response))
                => Verified
        /\ (returned.response # NoResponse /\ HoldsNeither(returned.response))
                => ~Verified

\* a page holding the title in capitals and the author was verified for a URL
\* that does not look like a product page
C15_Witness ==
    /\ VerifyAnswered
    /\ returned.response = B_title_author
    /\ Verified
    /\ ~is_likely_product_page(last_req.url)

\* C16: when no strategy yields a verified URL, find_product_page returns none
\* without raising, and crawl_bookstore records the ordinary failure "Product
\* page not found", not an internal error.
C16_NotFoundIsOrdinary ==
    (Returned /\ result.product_url = NoUrl /\ ~Disallowed) =>
        result.error_message = "Product page not found"

\* text holds a postal code
HasCode(text) == extract_postal_code_and_city(text).postal_code # None

\* the first text of texts that holds a postal code (0: none does)
FirstWithCode(texts) ==
    IF \E i \in 1..Len(texts) : HasCode(texts[i])
    THEN SetMin({i \in 1..Len(texts) : HasCode(texts[i])})
    ELSE 0

\* per page: what the search gives when the structured address elements come
\* first, the footer elements second and the text of the page last
InOrder ==
    [page \in ExtractPages |->
        IF FirstWithCode(page.address) > 0
        THEN extract_postal_code_and_city(page.address[FirstWithCode(page.address)])
        ELSE IF FirstWithCode(page.footer) > 0
        THEN extract_postal_code_and_city(page.footer[FirstWithCode(page.footer)])
        ELSE extract_postal_code_and_city(page.full)]

\* the page holds a postal code somewhere
Yields(page) == page # NoPage /\ InOrder[page].postal_code # None

\* the page the latest contact request was answered with
LastServed == ex.served[Len(ex.served)]

\* C17: the extractor searches a document in the order address elements,
\* footer elements, full text and returns what the first of these with a
\* postal code gives; contact pages are requested only when the supplied page
\* yields no postal code, and the search stops at the first contact page that
\* yields one.
C17_SearchOrder ==
    /\ ex.requests # <<>> => ~Yields(ex.html)
    /\ \A i \in 1..(Len(ex.served) - 1) : ~Yields(ex.served[i])
    /\ ex.pc = "contact" => (ex.served = <<>> \/ ~Yields(LastServed))
    /\ ex.pc = "returned" =>
            IF Yields(ex.html)
            THEN ex.requests = <<>> /\ ex.result = InOrder[ex.html]
            ELSE IF ex.served # <<>> /\ Yields(LastServed)
            THEN ex.result = InOrder[LastServed]
            ELSE ex.result = NoLocation /\ Len(ex.requests) = Len(ex.contact_urls)

\* the second contact page held a code in an address element, another in its
\* footer and a third in its text; the call returned the first of them
C17_Witness ==
    /\ ex.pc = "returned"
    /\ ex.html = X_plain
    /\ ex.served = <<NoPage, X_order>>
    /\ ex.result.postal_code = "9999 ZZ"

\* C18: one extract_location call tries at most 5 contact-page URLs, whatever
\* the number of fixed contact paths and of contact-like links on the page.
C18_AtMostFiveContactPages ==
    /\ Len(ex.contact_urls) <= 5
    /\ Len(ex.requests) <= 5

\* a call has tried five contact pages for a page that has a contact-like
\* link besides the fixed paths, and has given up
C18_Witness ==
    /\ ex.pc = "returned"
    /\ ex.html = X_plain
    /\ Len(ex.requests) = 5
    /\ ex.result = NoLocation

\* the URLs of the links of the page whose href or text holds a contact keyword
ContactLinkUrls(base_url, page) ==
    {urljoin(base_url, page.links[i].href) : i \in
        {i \in 1..Len(page.links) :
            \E k \in 1..Len(contact_keywords) :
                \/ Contains(Lower(HrefString(page.links[i].href)), contact_keywords[k])
                \/ Contains(Lower(page.links[i].text), contact_keywords[k])}}

\* C19: when the supplied page yields no postal code and has a link whose href
\* or text holds a contact keyword, the link's URL is among the contact pages
\* that are tried.
C19_ContactLinksTried ==
    (ex.pc = "contact" /\ ex.html # NoPage) =>
        \A u \in ContactLinkUrls(ex.base_url, ex.html) :
            \E i \in 1..Len(ex.contact_urls) : ex.contact_urls[i] = u

\* C20: when extract_location is called without html, its first request is a
\* fetch of the base URL itself.
C20_BaseUrlFetchedFirst ==
    (ex.html = NoPage /\ ex.requests # <<>>) => ex.requests[1] = ex.base_url

(***************************************************************************)
(* Claims about _extract_postal_code_and_city (SpecText).                  *)
(***************************************************************************)
\* the letters the specification excludes from a postal code
SpecExcludedLetters == {"F", "I", "O", "Q", "U", "Y"}

\* the digits and the letters of a text that is a postal-code candidate only
DigitsOf(text) == SubSeq(text, 1, 4)
LettersOf(text) == SubSeq(text, Len(text) - 1, Len(text))

\* what the specification says of a name that passes city validation
PassesValidation(name) ==
    /\ Len(name) >= 3
    /\ Char(name, 1) \in UpperChars
    /\ name \notin exclude_words

\* the first whitespace-separated token after the leftmost match of text,
\* without the punctuation around it ("" when nothing follows the match)
FirstTokenAfter(text) ==
    LET e == MatchEnd(text, SetMin(MatchStarts(text)))
        words == Words(SubSeq(text, e + 1, Len(text)))
    IN IF words = <<>> THEN "" ELSE StripChars(words[1], Punctuation)

Extracted == tx.pc # "idle"

\* C21: a text that is four digits, optional whitespace and two letters is
\* accepted exactly when its first digit is 1-9 and neither letter is F, I, O,
\* Q, U or Y in either case, and an accepted text yields "NNNN LL" in uppercase.
C21_PostalCodeMatcher ==
    (Extracted /\ tx.text \in CodeTexts) =>
        LET digits == DigitsOf(tx.text)
            letters == Upper(LettersOf(tx.text))
            accepted == /\ Char(digits, 1) \in NonZeroDigitChars
                        /\ Char(letters, 1) \notin SpecExcludedLetters
                        /\ Char(letters, 2) \notin SpecExcludedLetters
        IN IF accepted THEN tx.postal_code = digits \o " " \o letters
           ELSE tx.postal_code = None

\* C22: the postal code found in a returned postal code is that postal code.
C22_NormalizeIdempotent == tx.pc = "again" => tx.again = tx.postal_code

\* the returned postal code was rebuilt (it is not a part of the text as
\* written) and has been normalized a second time
C22_Witness ==
    /\ tx.pc = "again"
    /\ ~Contains(tx.text, tx.postal_code)
    /\ tx.again = tx.postal_code

\* C23: when the first token after the matched postal code is a capitalized
\* word that passes city validation, that token is the city returned; a text
\* that is the postal code alone yields the postal code and no city.
C23_CityAfterPostalCode ==
    (Extracted /\ tx.postal_code # None) =>
        /\ PassesValidation(FirstTokenAfter(tx.text)) => tx.city = FirstTokenAfter(tx.text)
        /\ tx.text \in CodeTexts => tx.city = None

\* C24: an address written as city, street, postal code with nothing after the
\* postal code yields the postal code together with the preceding city.
C24_CityBeforePostalCode ==
    (/\ Extracted
     /\ tx.postal_code # None
     /\ tx.text \in {"Amsterdam, Straat 1, " \o c : c \in CodeTexts}) =>
        tx.city = "Amsterdam"

\* C25: a returned city has at least 3 characters, starts with an uppercase
\* letter and is not in the exclude list; otherwise the city is absent.
C25_CityIsValidated == Extracted => (tx.city = None \/ PassesValidation(tx.city))

\* an excluded word follows the postal code and no city is returned
C25_Witness ==
    /\ tx.pc = "returned"
    /\ tx.postal_code # None
    /\ FirstTokenAfter(tx.text) \in exclude_words
    /\ tx.city = None

\* C26: the postal code returned is the normalized leftmost match of the
\* text, whether or not a city was found for it; a text without a match
\* yields nothing.
C26_FirstMatchWins ==
    Extracted =>
        IF MatchStarts(tx.text) = {} THEN tx.postal_code = None /\ tx.city = None
        ELSE tx.postal_code = normalized(tx.text, SetMin(MatchStarts(tx.text)))

\* the leftmost match has no city, a later match of the text has one, and the
\* leftmost is returned without a city
C26_Witness ==
    /\ tx.pc = "returned"
    /\ Cardinality(MatchStarts(tx.text)) > 1
    /\ tx.city = None
    /\ \E i \in MatchStarts(tx.text) : location_of_match(tx.text, i).city # None

(***************************************************************************)
(* Claims about the stages of crawl_bookstore and the loop of              *)
(* crawl_from_csv (Spec).                                                  *)
(***************************************************************************)
Prefilled == Truthy(bookstore.postal_code) /\ Truthy(bookstore.city)

\* the positions of the address extraction (main.py:135-155)
Extracting == pc \in {"extract_wait", "extract_rl", "extract_fetch", "contact"}

\* C27: a record with both values pre-filled succeeds as soon as its product
\* page is found, with the pre-filled postal code and city in the result, and
\* without a request made for the extraction; the extraction runs only when a
\* product page was found and not both values were pre-filled.
C27_PrefilledSkipsExtraction ==
    /\ [](Extracting => result.product_url # NoUrl /\ ~Prefilled)
    /\ []((Returned /\ Prefilled /\ result.product_url # NoUrl) =>
            /\ result.success
            /\ result.postal_code = bookstore.postal_code
            /\ result.city = bookstore.city
            /\ last_req.by = "finder")
    /\ [][(last_req' # last_req /\ last_req'.by \in {"orchestrator", "extractor"}) =>
            Extracting /\ ~Prefilled]_vars

\* a pre-filled record has succeeded on the product page just found
C27_Witness ==
    /\ Returned
    /\ Prefilled
    /\ result.success
    /\ returned.url = result.product_url
    /\ result.product_url # NoUrl

\* the stage crawl_bookstore is in: 1 the robots check, 2 the rate-limit wait,
\* 3 the product search, 4 the address extraction, 5 returned, 0 not running
StageRank ==
    CASE pc = "robots" -> 1
      [] pc \in {"rate_limit", "rate_limit_wait"} -> 2
      [] pc \in {"known", "google", "verify", "direct_home", "direct_search",
                 "direct_catalog"} -> 3
      [] Extracting -> 4
      [] pc = "done" -> 5
      [] OTHER -> 0

\* the extraction found no postal code, or could not fetch the homepage
ExtractionMiss ==
    /\ Returned
    /\ result.error_message \in {"Postal code not found", "Could not fetch homepage"}

\* C28: a bookstore starts at the robots check, a stage is followed by itself,
\* by the next stage or by the return; a recorded failure is the return, with
\* success false (no search after a robots disallow, no extraction after a
\* product not found); an extraction miss fails the bookstore and keeps the
\* product_url.
C28_StagesInOrder ==
    /\ [][(StageRank = 0 /\ StageRank' # 0) => StageRank' = 1]_vars
    /\ [][(StageRank > 0 /\ StageRank < 5) =>
            StageRank' \in {StageRank, StageRank + 1, 5}]_vars
    /\ [](result.error_message # None => Returned /\ ~result.success)
    /\ [](Disallowed => last_req.by \in {"", "robots"})
    /\ []((Returned /\ result.error_message = "Product page not found") =>
            result.product_url = NoUrl /\ last_req.by \in {"", "robots", "finder"})
    /\ [](ExtractionMiss => ~result.success /\ result.product_url # NoUrl)

\* the extraction has tried its contact pages and missed
C28_Witness ==
    /\ ExtractionMiss
    /\ last_req.by = "extractor"
    /\ result.product_url # NoUrl

\* C29: an exception raised while a bookstore is processed ends that bookstore
\* with success false and the exception recorded as the error; the result is
\* then upserted and counted as a failure like any other, and the loop takes
\* the next row.
C29_ExceptionIsCaught ==
    /\ [][(result'.error_message = "exception" /\ result.error_message # "exception") =>
            /\ StageRank \in 1..4
            /\ pc' = "done"
            /\ ~result'.success
            /\ processed' = processed]_vars
    /\ [](result.error_message = "exception" => Returned /\ ENABLED Finish)
    /\ [][(result.error_message = "exception" /\ pc' # pc) =>
            /\ pc' = "idle"
            /\ processed' = processed + 1
            /\ failed' = failed + 1]_vars
    /\ []((pc = "idle" /\ processed < total) => ENABLED Begin)

\* an exception was caught while a bookstore was processed that is not the
\* last of the input
C29_Witness ==
    /\ Returned
    /\ result.error_message = "exception"
    /\ ~result.success
    /\ processed + 1 < total

\* C30: the rows are taken in input order, one at a time; each processed row
\* has made exactly one upsert, in input order; successful + failed is the
\* number of rows processed so far, and when the totals are reported it is
\* the number of rows.
C30_EveryRowOnce ==
    /\ [](successful + failed = processed)
    /\ [](processed <= total)
    /\ [](upserts = [i \in 1..processed |-> csv[i].url])
    /\ [](StageRank # 0 => bookstore = csv[processed + 1])
    /\ [][processed' # processed => Returned /\ processed' = processed + 1]_vars
    /\ [](pc = "reported" => processed = total /\ total = successful + failed)

\* the totals of a run of two rows, one success and one failure, are reported
C30_Witness ==
    /\ pc = "reported"
    /\ total = 2
    /\ successful = 1
    /\ failed = 1
    /\ Len(upserts) = 2

(***************************************************************************)
(* Claims about whole runs of crawl_bookstore (Spec).                      *)
(***************************************************************************)
EndsWith(s, suffix) ==
    /\ Len(s) >= Len(suffix)
    /\ SubSeq(s, Len(s) - Len(suffix) + 1, Len(s)) = suffix

\* the path of the book's page on a site
BookPagePath == "/a/walter-van-den-berg/zanger-ronald-zingt-de-blues/501634390"

\* the bookstore had no known address, its product page was found at the
\* book's page and its homepage was the one with the footer text
\* "Hoofdstraat 1, 1234 AB Voorbeeldstad"
ExampleSite ==
    /\ Returned
    /\ ~Truthy(bookstore.postal_code)
    /\ ~Truthy(bookstore.city)
    /\ result.product_url.path = BookPagePath
    /\ result.postal_code = Located[X_footer].postal_code
    /\ result.city = Located[X_footer].city

\* C31: for a bookstore with no known address whose homepage has the footer
\* text "Hoofdstraat 1, 1234 AB Voorbeeldstad" and whose book page is at
\* /a/.../zanger-ronald-zingt-de-blues/501634390, the result is a success with
\* a product_url that ends in /501634390, postal_code "1234 AB" and city
\* "Voorbeeldstad".
C31_EndToEndSuccess ==
    ExampleSite =>
        /\ result.success
        /\ EndsWith(UrlString(result.product_url), "/501634390")
        /\ result.postal_code = "1234 AB"
        /\ result.city = "Voorbeeldstad"

\* C32: a site that answers HTTP 403 gets a result that identifies the failure
\* as Forbidden: what make_request hands to its caller for a 403 is not the
\* None it hands over for a page that was not found, the only value from which
\* crawl_bookstore could tell the two apart.
C32_ForbiddenIsIdentified ==
    (mr.pc = "returned" /\ mr.outcome = Outcome(403, None)) =>
        /\ mr.gets = 1
        /\ mr.result # None

(***************************************************************************)
(* Claims about a RateLimiter shared by two threads (SpecRL2).             *)
(***************************************************************************)
\* C33: whatever the interleaving of two concurrent calls of wait_if_needed,
\* a call for a domain returns at least delay_seconds after the previous
\* return of a call for that domain.
C33_AtomicCheckAndUpdate ==
    [][\A c \in Callers :
        (/\ rl[c].pc = "update"
         /\ rl'[c].pc = "idle"
         /\ rl[c].domain \in DOMAIN last_request_time) =>
            now - last_request_time[rl[c].domain] >= delay_seconds]_vars

(***************************************************************************)
(* Claims about the start and the strategies of a run (Spec).              *)
(***************************************************************************)
\* crawl_from_csv has returned its error value
ReadError == pc = "error"

\* C34: when the input cannot be read, crawl_from_csv returns its error value
\* and nothing else happens: no crawl run is started, no bookstore is
\* processed, no request is made and nothing is upserted, then or later.
C34_UnreadableInputAborts ==
    /\ [](~readable => pc \in {"start", "error"})
    /\ [](ReadError =>
            /\ ~readable
            /\ crawl_runs = 0
            /\ processed = 0
            /\ upserts = <<>>
            /\ last_req = NoRequest
            /\ last_request_time = EmptyDict
            /\ \A d \in Domains : robots_fetched[d] = 0)
    /\ [][ReadError => UNCHANGED vars]_vars
    /\ [](pc \notin {"start", "error"} => crawl_runs = 1)

\* the input could not be read and the error value was returned
C34_Witness == ReadError /\ ~readable /\ crawl_runs = 0

(***************************************************************************)
(* Claims about export_to_json (SpecExport).                               *)
(***************************************************************************)
NamesOf(q) == {q[i].name : i \in 1..Len(q)}

\* the first record of q that has the name n
FirstNamed(q, n) == q[SetMin({i \in 1..Len(q) : q[i].name = n})]

\* C35: the export holds the names of the store's successful records and of
\* the manual entries, each name once; a name that has a manual entry is
\* exported with the manual entry's values, whether or not the store has it.
C35_ExportMerges ==
    xp.pc = "exported" =>
        LET manual == manual_entries_of(xp.rows)
        IN /\ NamesOf(xp.out) = NamesOf(xp.bookstores) \cup NamesOf(manual)
           /\ \A i, j \in 1..Len(xp.out) : xp.out[i].name = xp.out[j].name => i = j
           /\ \A i \in 1..Len(xp.out) :
                IF xp.out[i].name \in NamesOf(manual)
                THEN /\ xp.out[i].source = "manual"
                     /\ xp.out[i].product_url = FirstNamed(manual, xp.out[i].name).product_url
                     /\ xp.out[i].city = FirstNamed(manual, xp.out[i].name).city
                ELSE /\ xp.out[i].source = "crawled"
                     /\ xp.out[i].product_url =
                            FirstNamed(xp.bookstores, xp.out[i].name).product_url
                     /\ xp.out[i].city = FirstNamed(xp.bookstores, xp.out[i].name).city

\* a name is in the store and in the manual entries, with different values,
\* and the export holds it once
C35_Witness ==
    /\ xp.pc = "exported"
    /\ "Atlas" \in NamesOf(xp.bookstores) \cap NamesOf(manual_entries_of(xp.rows))
    /\ Len(xp.bookstores) = 2
    /\ xp.bookstores[1].name = xp.bookstores[2].name
    /\ Len(xp.out) = 1
    /\ xp.out[1].source = "manual"

(***************************************************************************)
(* A further claim about _extract_postal_code_and_city (SpecText).         *)
(***************************************************************************)
\* the capitalized tokens that immediately precede the leftmost match of text
\* in the last comma- or newline-separated part before it
PrecedingTokens(text) ==
    city_words(Words(Strip(LastPart(SubSeq(text, 1, SetMin(MatchStarts(text)) - 1)))))

\* q[-n:]
LastN(q, n) == SubSeq(q, IF Len(q) > n THEN Len(q) - n + 1 ELSE 1, Len(q))

\* C36: when nothing follows the postal code and a city is derived from the
\* tokens before it, the city is made of the capitalized tokens that
\* immediately precede the postal code, the 3 nearest to it when there are
\* more than 3.
C36_NearestThreeTokens ==
    (/\ Extracted
     /\ tx.postal_code # None
     /\ FirstTokenAfter(tx.text) = ""
     /\ tx.city # None) =>
        tx.city = Join(LastN(PrecedingTokens(tx.text), 3))

(***************************************************************************)
(* Claims about the direct crawl (Spec).                                   *)
(***************************************************************************)
\* the input names by which the specification knows a search form
SpecSearchKeywords == {"search", "query", "zoek"}

\* soup holds a form with an input whose name contains one of them
HasSearchForm(soup) ==
    \E i \in 1..Len(soup.forms) : \E j \in 1..Len(soup.forms[i].inputs) :
        \E keyword \in SpecSearchKeywords :
            Contains(Lower(soup.forms[i].inputs[j]), keyword)

\* the direct crawl has parsed its homepage and turns to the search request
TurnsToSearch == pc = "direct_home" /\ pc' = "direct_search"

\* C37: the direct crawl turns to a search request only when the homepage it
\* fetched holds a search form, a form with an input whose name contains
\* "search", "query" or "zoek".
C37_SearchOnlyWithForm ==
    [][TurnsToSearch =>
        \A soup \in HomePages :
            finder' = HomeFinder[netloc(bookstore.url)][soup] => HasSearchForm(soup)]_vars

\* the attempt the direct crawl is at: 1 the homepage fetch, 2 the search, 3
\* the homepage links, 4 the catalog pages, 0 when it is not running
DirectStep ==
    CASE pc = "direct_home" -> 1
      [] pc = "direct_search" \/ (pc = "verify" /\ finder.stage = "search") -> 2
      [] pc = "verify" /\ finder.stage = "links" -> 3
      [] pc = "direct_catalog" \/ (pc = "verify" /\ finder.stage = "catalog") -> 4
      [] OTHER -> 0

\* C38: the direct crawl starts with the homepage fetch; when that fetch fails
\* it returns none at once; otherwise the search, the homepage links and the
\* catalog links are tried in that order, none after a URL was verified, and
\* at most 3 catalog pages are fetched.
C38_DirectCrawlOrder ==
    /\ [][(DirectStep = 0 /\ DirectStep' > 0) => DirectStep' = 1]_vars
    /\ [][(pc = "direct_home" /\ pc' # pc) =>
            \/ pc' = "direct_search" /\ last_req'.url = bookstore.url
            \/ pc' = "done" /\ result'.product_url = NoUrl]_vars
    /\ [][(DirectStep > 0 /\ DirectStep' > 0) => DirectStep' >= DirectStep]_vars
    /\ [][(DirectStep > 0 /\ returned'.url # NoUrl) => DirectStep' = 0]_vars
    /\ [](DirectStep > 0 => returned.url = NoUrl)
    /\ [](pc = "direct_catalog" => finder.k <= 3 /\ finder.k <= Len(finder.catalog_links))
    /\ [][(pc = "direct_catalog" /\ last_req' # last_req) =>
            last_req'.url = finder.catalog_links[finder.k]]_vars

\* the homepage holds four catalog links and the third catalog page is about
\* to be fetched, the search and the first two having given nothing
C38_Witness ==
    /\ pc = "direct_catalog"
    /\ finder.k = 3
    /\ finder.home_links = <<>>
    /\ last_req.url = finder.catalog_links[2]

\* C39: a URL returned by find_product_page has the authority of the
\* bookstore URL that was passed in, and so has the product_url of the result.
C39_ReturnedUrlOnSite ==
    /\ returned.url # NoUrl => netloc(returned.url) = netloc(bookstore.url)
    /\ result.product_url # NoUrl => netloc(result.product_url) = netloc(bookstore.url)

\* C40: a result crawl_bookstore returns carries an error message exactly
\* when it is a failure; a success has its product_url and its postal_code
\* set.
C40_ErrorIffFailure ==
    Returned =>
        /\ result.success <=> result.error_message = None
        /\ result.success =>
                /\ result.product_url # NoUrl
                /\ Truthy(result.postal_code)

\* a bookstore has failed in the extraction, after its product page was found
C40_Witness ==
    /\ Returned
    /\ ~result.success
    /\ result.product_url # NoUrl
    /\ result.error_message = "Postal code not found"

====
